---------------------------- MODULE Spec2Model ----------------------------
(***************************************************************************)
(* Heat-equation explorer: the standalone 1D page (src/unnamed/part_000),  *)
(* the standalone 2D page (src/2d/app.js) and the unified 1D/2D page       *)
(* (src/unnamed/part_001).                                                 *)
(*                                                                         *)
(* Numbers.  A JavaScript number is modelled as a pair <<n, d>>:           *)
(*   d > 0   the rational n/d in lowest terms,                             *)
(*   <<0,0>> NaN,  <<1,0>> +Infinity,  <<-1,0>> -Infinity,                 *)
(* with the IEEE-754 rules for the non-finite values.  Rounding and        *)
(* overflow of doubles are not modelled (arithmetic on finite values is    *)
(* exact), and zero is unsigned.  Math.sin and Math.exp are modelled by    *)
(* rational surrogates (SinPi, Exp) that are exact where the true value    *)
(* is rational at the grid points used.                                    *)
(*                                                                         *)
(* Arrays are functions on 0..n-1, as in the source.                       *)
(***************************************************************************)
EXTENDS Integers, Sequences, FiniteSets, TLC

\* ------------------------------------------------------------------------
\* Numbers
\* ------------------------------------------------------------------------

NaN  == <<0, 0>>
PInf == <<1, 0>>
NInf == <<-1, 0>>

IAbs(n) == IF n < 0 THEN -n ELSE n
ISign(n) == IF n < 0 THEN -1 ELSE IF n > 0 THEN 1 ELSE 0

RECURSIVE GCD(_, _)
GCD(a, b) == IF b = 0 THEN a ELSE GCD(b, a % b)

\* the rational n/d, d # 0, in lowest terms with a positive denominator
Rat(n, d) ==
    LET g == GCD(IAbs(n), IAbs(d))
        s == IF d < 0 THEN -1 ELSE 1
    IN  <<s * (n \div g), IAbs(d) \div g>>

Int2Num(n) == <<n, 1>>
Zero == <<0, 1>>
One  == <<1, 1>>

isFinite(v) == v[2] # 0
IsNaN(v)    == v = NaN

Neg(v) == <<-v[1], v[2]>>

\* Math.abs
Abs(v) == <<IAbs(v[1]), v[2]>>

\* a + b
Add(a, b) ==
    IF IsNaN(a) \/ IsNaN(b) THEN NaN
    ELSE IF ~isFinite(a) /\ ~isFinite(b) THEN (IF a = b THEN a ELSE NaN)
    ELSE IF ~isFinite(a) THEN a
    ELSE IF ~isFinite(b) THEN b
    ELSE LET g == GCD(a[2], b[2])
             l == (a[2] \div g) * b[2]
         IN  Rat(a[1] * (l \div a[2]) + b[1] * (l \div b[2]), l)

\* a - b
Sub(a, b) == Add(a, Neg(b))

\* a * b
Mul(a, b) ==
    IF IsNaN(a) \/ IsNaN(b) THEN NaN
    ELSE IF ~isFinite(a) \/ ~isFinite(b)
         THEN (IF a[1] = 0 \/ b[1] = 0 THEN NaN
               ELSE <<ISign(a[1]) * ISign(b[1]), 0>>)
    ELSE LET g1 == GCD(IAbs(a[1]), b[2])
             g2 == GCD(IAbs(b[1]), a[2])
         IN  <<(a[1] \div g1) * (b[1] \div g2), (a[2] \div g2) * (b[2] \div g1)>>

\* a / b
Div(a, b) ==
    IF IsNaN(a) \/ IsNaN(b) THEN NaN
    ELSE IF ~isFinite(a) THEN (IF ~isFinite(b) THEN NaN
                               ELSE <<a[1] * (IF b[1] < 0 THEN -1 ELSE 1), 0>>)
    ELSE IF ~isFinite(b) THEN Zero
    ELSE IF b[1] = 0 THEN <<ISign(a[1]), 0>>
    ELSE Mul(a, Rat(b[2], b[1]))

\* n1/d1 < n2/d2 for n1, n2 >= 0 and d1, d2 > 0, by the integer parts and
\* then the inverted fractional parts, so that no product is formed
RECURSIVE FracLt(_, _, _, _)
FracLt(n1, d1, n2, d2) ==
    LET q1 == n1 \div d1
        q2 == n2 \div d2
        r1 == n1 % d1
        r2 == n2 % d2
    IN  IF q1 # q2 THEN q1 < q2
        ELSE IF r2 = 0 THEN FALSE
        ELSE IF r1 = 0 THEN TRUE
        ELSE FracLt(d2, r2, d1, r1)

\* a < b (false when either side is NaN)
Lt(a, b) ==
    IF IsNaN(a) \/ IsNaN(b) THEN FALSE
    ELSE IF a = b THEN FALSE
    ELSE IF a = NInf \/ b = PInf THEN TRUE
    ELSE IF a = PInf \/ b = NInf THEN FALSE
    ELSE IF a[1] < 0 /\ b[1] >= 0 THEN TRUE
    ELSE IF a[1] >= 0 /\ b[1] < 0 THEN FALSE
    ELSE IF a[1] < 0 THEN FracLt(-b[1], b[2], -a[1], a[2])
    ELSE FracLt(a[1], a[2], b[1], b[2])

Gt(a, b)  == Lt(b, a)
\* a >= b (false when either side is NaN)
Geq(a, b) == ~IsNaN(a) /\ ~IsNaN(b) /\ ~Lt(a, b)

\* ceil(d / 10^k) for d >= 0, without forming 10^k
RECURSIVE CeilDivPow10(_, _)
CeilDivPow10(d, k) == IF k = 0 THEN d ELSE CeilDivPow10((d + 9) \div 10, k - 1)

\* the exponent of the pivot tolerance 1e-15
PivotEpsExp == 15

\* Math.abs(v) < 1e-15
AbsLtPivotEps(v) ==
    /\ isFinite(v)
    /\ IAbs(v[1]) < CeilDivPow10(v[2], PivotEpsExp)

\* ------------------------------------------------------------------------
\* Arrays
\* ------------------------------------------------------------------------

ALen(a) == Cardinality(DOMAIN a)
Fill(n, v) == [i \in 0..(n - 1) |-> v]

\* the array f restricted to lo..hi, with every element computed once
RECURSIVE Tabulate(_, _, _)
Tabulate(f, lo, hi) ==
    IF lo > hi THEN <<>> ELSE (lo :> f[lo]) @@ Tabulate(f, lo + 1, hi)

\* the Nx-by-Ny array f, with every element computed once
Tabulate2D(f, Nx, Ny) ==
    Tabulate([i \in 0..(Nx - 1) |-> Tabulate(f[i], 0, Ny - 1)], 0, Nx - 1)


\* ------------------------------------------------------------------------
\* Program constants (config.L, config.alpha, k)
\* ------------------------------------------------------------------------

L     == <<1, 1>>
alpha == <<1, 100>>
\* Math.PI where it enters a product (the decay rates)
PI    == <<22, 7>>
\* the 1D wavenumber k of getSineIC / getAnalyticalSolution
k == 3

\* ------------------------------------------------------------------------
\* Math.sin and Math.exp
\* ------------------------------------------------------------------------

\* sin(j * pi / 12) for j in 0..6: exact at 0, pi/6 and pi/2, rounded elsewhere
SinFirstQuadrant(j) ==
    CASE j = 0 -> <<0, 1>>
      [] j = 1 -> <<1, 4>>
      [] j = 2 -> <<1, 2>>
      [] j = 3 -> <<7, 10>>
      [] j = 4 -> <<7, 8>>
      [] j = 5 -> <<19, 20>>
      [] j = 6 -> <<1, 1>>

\* Math.sin(q * Math.PI) for q a multiple of 1/12; NaN for a non-finite q
SinPi(q) ==
    IF ~isFinite(q) THEN NaN
    ELSE LET j == (q[1] * (12 \div q[2])) % 24
             h == j % 12
             v == SinFirstQuadrant(IF h <= 6 THEN h ELSE 12 - h)
         IN  IF j < 12 THEN v ELSE Neg(v)

\* Math.exp(z): the surrogate 1/(1-z) for z <= 0 and 1+z for z > 0, which is
\* 1 at 0, positive and strictly increasing like exp
Exp(z) ==
    IF IsNaN(z) THEN NaN
    ELSE IF z = PInf THEN PInf
    ELSE IF z = NInf THEN Zero
    ELSE IF z[1] <= 0 THEN Div(One, Sub(One, z))
    ELSE Add(One, z)

\* ------------------------------------------------------------------------
\* 1D: initial condition, analytical solution, steppers (part_000)
\* ------------------------------------------------------------------------

\* x.map(xi => Math.sin(k * Math.PI * xi / L))
getSineIC(x) ==
    [i \in DOMAIN x |-> SinPi(Div(Mul(Int2Num(k), x[i]), L))]

\* decay = Math.exp(-alpha * Math.pow(k * Math.PI, 2) * t / (L * L))
getAnalyticalSolution(x, t) ==
    LET kpi   == Mul(Int2Num(k), PI)
        decay == Exp(Div(Mul(Mul(Neg(alpha), Mul(kpi, kpi)), t), Mul(L, L)))
    IN  [i \in DOMAIN x |-> Mul(SinPi(Div(Mul(Int2Num(k), x[i]), L)), decay)]

\* a stencil with the sign of the centre term flipped
Stencil1D_plusCentre(u, r, i) ==
    Add(u[i], Mul(r, Add(Add(u[i + 1], Mul(Int2Num(2), u[i])), u[i - 1])))

\* u[i] + r * (u[i + 1] - 2 * u[i] + u[i - 1])
Stencil1D(u, r, i) ==
    Add(u[i], Mul(r, Add(Sub(u[i + 1], Mul(Int2Num(2), u[i])), u[i - 1])))

\* the step written into u itself: point i reads the new value of i - 1
forwardEuler_inPlace(u, r) ==
    LET n == ALen(u)
        w[i \in 0..(n - 1)] ==
            IF i = 0 \/ i = n - 1 THEN Zero
            ELSE Add(u[i], Mul(r, Add(Sub(u[i + 1], Mul(Int2Num(2), u[i])),
                                      w[i - 1])))
    IN  [i \in 0..(n - 1) |-> w[i]]

forwardEuler(u, r) ==
    LET n == ALen(u)
    IN  [i \in 0..(n - 1) |->
            IF i = 0 \/ i = n - 1 THEN Zero ELSE Stencil1D(u, r, i)]

\* the forward sweep of thomasAlgorithm from row i on, cp and dp filled on
\* 0..i-1; ok = FALSE when a pivot is below the tolerance
RECURSIVE ThomasForward(_, _, _, _, _, _, _)
ThomasForward(a, b, c, d, i, cp, dp) ==
    IF i >= ALen(d) THEN [ok |-> TRUE, cp |-> cp, dp |-> dp]
    ELSE LET denom == Sub(b[i], Mul(a[i], cp[i - 1]))
         IN  IF AbsLtPivotEps(denom) THEN [ok |-> FALSE, cp |-> cp, dp |-> dp]
             ELSE ThomasForward(a, b, c, d, i + 1,
                    cp @@ (i :> Div(c[i], denom)),
                    dp @@ (i :> Div(Sub(d[i], Mul(a[i], dp[i - 1])), denom)))

\* a back substitution that forgets the super-diagonal: x[i] = dp[i]
ThomasBack_noCoupling(cp, dp, i, x) == [j \in DOMAIN dp |-> dp[j]]

\* the back substitution of thomasAlgorithm from row i down, x filled on i+1..n-1
RECURSIVE ThomasBack(_, _, _, _)
ThomasBack(cp, dp, i, x) ==
    IF i < 0 THEN x
    ELSE ThomasBack(cp, dp, i - 1,
                    (i :> Sub(dp[i], Mul(cp[i], x[i + 1]))) @@ x)

\* TRUE when thomasAlgorithm leaves through one of its "return d" branches
ThomasZeroPivot(a, b, c, d) ==
    \/ AbsLtPivotEps(b[0])
    \/ ~ThomasForward(a, b, c, d, 1, (0 :> Div(c[0], b[0])),
                      (0 :> Div(d[0], b[0]))).ok

\* a solver that answers a pivot below the tolerance with zeros
ThomasFinish_zeros(d, fw) ==
    IF ~fw.ok THEN Fill(ALen(d), Zero)
    ELSE ThomasBack(fw.cp, fw.dp, ALen(d) - 2,
                    ((ALen(d) - 1) :> fw.dp[ALen(d) - 1]))

\* thomasAlgorithm after its forward sweep fw: "return d" on a pivot below
\* the tolerance, the back substitution otherwise
ThomasFinish(d, fw) ==
    IF ~fw.ok THEN d
    ELSE ThomasBack(fw.cp, fw.dp, ALen(d) - 2,
                    ((ALen(d) - 1) :> fw.dp[ALen(d) - 1]))

thomasAlgorithm(a, b, c, d) ==
    IF AbsLtPivotEps(b[0]) THEN d
    ELSE ThomasFinish(d, ThomasForward(a, b, c, d, 1,
                                       (0 :> Div(c[0], b[0])),
                                       (0 :> Div(d[0], b[0]))))

\* the boundary rows of a tridiagonal system: b[0] = 1; c[0] = 0; d[0] = 0;
\* a[n-1] = 0; b[n-1] = 1; d[n-1] = 0
BoundaryA(a) == [a EXCEPT ![ALen(a) - 1] = Zero]
\* boundary rows that keep the diagonal of the interior rows
BoundaryB_keepsDiagonal(b) == b

BoundaryB(b) == [b EXCEPT ![0] = One, ![ALen(b) - 1] = One]
BoundaryC(c) == [c EXCEPT ![0] = Zero]
BoundaryD(d) == [d EXCEPT ![0] = Zero, ![ALen(d) - 1] = Zero]

backwardEuler(u, r) ==
    LET n == ALen(u)
        a == Fill(n, Neg(r))
        b == Fill(n, Add(One, Mul(Int2Num(2), r)))
        c == Fill(n, Neg(r))
        d == u
    IN  thomasAlgorithm(BoundaryA(a), BoundaryB(b), BoundaryC(c), BoundaryD(d))

\* a Crank-Nicolson step without the explicit half: its right-hand side is
\* the field itself
crankNicolson_implicitHalfOnly(u, r) ==
    LET n  == ALen(u)
        r2 == Div(r, Int2Num(2))
    IN  thomasAlgorithm(BoundaryA(Fill(n, Neg(r2))),
                        BoundaryB(Fill(n, Add(One, r))),
                        BoundaryC(Fill(n, Neg(r2))),
                        BoundaryD(u))

\* d[i] = (1 - r) * u[i] + r2 * (u[i + 1] + u[i - 1]) for the interior rows
crankNicolson(u, r) ==
    LET n  == ALen(u)
        r2 == Div(r, Int2Num(2))
        a  == Fill(n, Neg(r2))
        b  == Fill(n, Add(One, r))
        c  == Fill(n, Neg(r2))
        d  == [i \in 0..(n - 1) |->
                 IF i = 0 \/ i = n - 1 THEN Zero
                 ELSE Add(Mul(Sub(One, r), u[i]),
                          Mul(r2, Add(u[i + 1], u[i - 1])))]
    IN  thomasAlgorithm(BoundaryA(a), BoundaryB(b), BoundaryC(c), BoundaryD(d))


\* ------------------------------------------------------------------------
\* 2D: initial condition, analytical solution, steppers (2d/app.js)
\* ------------------------------------------------------------------------

\* Math.sin(2 * Math.PI * x[i]) * Math.sin(Math.PI * y[j])
SineMode2D(x, y, i, j) ==
    Mul(SinPi(Mul(Int2Num(2), x[i])), SinPi(y[j]))

getSineIC2D(x, y) ==
    [i \in DOMAIN x |-> [j \in DOMAIN y |-> SineMode2D(x, y, i, j)]]

\* decay = Math.exp(-alpha * Math.PI * Math.PI * 5 * t)
getAnalyticalSolution2D(x, y, t) ==
    LET decay == Exp(Mul(Mul(Mul(Mul(Neg(alpha), PI), PI), Int2Num(5)), t))
    IN  [i \in DOMAIN x |-> [j \in DOMAIN y |->
            Mul(SineMode2D(x, y, i, j), decay)]]

\* u[i + 1][j] - 2 * u[i][j] + u[i - 1][j]
D2x(u, i, j) == Add(Sub(u[i + 1][j], Mul(Int2Num(2), u[i][j])), u[i - 1][j])
\* u[i][j + 1] - 2 * u[i][j] + u[i][j - 1]
D2y(u, i, j) == Add(Sub(u[i][j + 1], Mul(Int2Num(2), u[i][j])), u[i][j - 1])

\* the step written into u itself: point (i, j) reads the new values of
\* (i - 1, j) and (i, j - 1)
forwardEuler2D_inPlace(u, rx, ry) ==
    LET Nx == ALen(u)
        Ny == ALen(u[0])
        w[p \in (0..(Nx - 1)) \X (0..(Ny - 1))] ==
            LET i == p[1]
                j == p[2]
            IN  IF i \in 1..(Nx - 2) /\ j \in 1..(Ny - 2)
                THEN Add(Add(u[i][j],
                             Mul(rx, Add(Sub(u[i + 1][j], Mul(Int2Num(2), u[i][j])),
                                         w[<<i - 1, j>>]))),
                         Mul(ry, Add(Sub(u[i][j + 1], Mul(Int2Num(2), u[i][j])),
                                     w[<<i, j - 1>>])))
                ELSE Zero
    IN  [i \in 0..(Nx - 1) |-> [j \in 0..(Ny - 1) |-> w[<<i, j>>]]]

forwardEuler2D(u, rx, ry) ==
    LET Nx == ALen(u)
        Ny == ALen(u[0])
    IN  [i \in 0..(Nx - 1) |-> [j \in 0..(Ny - 1) |->
            IF i \in 1..(Nx - 2) /\ j \in 1..(Ny - 2)
            THEN Add(Add(u[i][j], Mul(rx, D2x(u, i, j))), Mul(ry, D2y(u, i, j)))
            ELSE Zero]]

\* (1 - rx d2x) u* = u^n for the rows j = 1..Ny-2, then
\* (1 - ry d2y) u^{n+1} = u* for the columns i = 1..Nx-2
backwardEulerADI(u, rx, ry) ==
    LET Nx == ALen(u)
        Ny == ALen(u[0])
        resX == Tabulate([j \in 1..(Ny - 2) |->
                  thomasAlgorithm(BoundaryA(Fill(Nx, Neg(rx))),
                                  BoundaryB(Fill(Nx, Add(One, Mul(Int2Num(2), rx)))),
                                  BoundaryC(Fill(Nx, Neg(rx))),
                                  BoundaryD([i \in 0..(Nx - 1) |-> u[i][j]]))],
                  1, Ny - 2)
        uStar == [i \in 0..(Nx - 1) |-> [j \in 0..(Ny - 1) |->
                    IF j \in 1..(Ny - 2) THEN resX[j][i] ELSE Zero]]
        resY == Tabulate([i \in 1..(Nx - 2) |->
                  thomasAlgorithm(BoundaryA(Fill(Ny, Neg(ry))),
                                  BoundaryB(Fill(Ny, Add(One, Mul(Int2Num(2), ry)))),
                                  BoundaryC(Fill(Ny, Neg(ry))),
                                  BoundaryD([j \in 0..(Ny - 1) |-> uStar[i][j]]))],
                  1, Nx - 2)
    IN  [i \in 0..(Nx - 1) |-> [j \in 0..(Ny - 1) |->
            IF i \in 1..(Nx - 2) THEN resY[i][j] ELSE Zero]]

\* Peaceman-Rachford: (1 - rx/2 d2x) u* = (1 + ry/2 d2y) u^n for the rows
\* j = 1..Ny-2, then (1 - ry/2 d2y) u^{n+1} = (1 + rx/2 d2x) u* for the
\* columns i = 1..Nx-2
crankNicolsonADI(u, rx, ry) ==
    LET Nx == ALen(u)
        Ny == ALen(u[0])
        rx2 == Div(rx, Int2Num(2))
        ry2 == Div(ry, Int2Num(2))
        resX == Tabulate([j \in 1..(Ny - 2) |->
                  thomasAlgorithm(BoundaryA(Fill(Nx, Neg(rx2))),
                                  BoundaryB(Fill(Nx, Add(One, rx))),
                                  BoundaryC(Fill(Nx, Neg(rx2))),
                                  BoundaryD([i \in 0..(Nx - 1) |->
                                      IF i \in 1..(Nx - 2)
                                      THEN Add(u[i][j], Mul(ry2, D2y(u, i, j)))
                                      ELSE Zero]))],
                  1, Ny - 2)
        uStar == [i \in 0..(Nx - 1) |-> [j \in 0..(Ny - 1) |->
                    IF j \in 1..(Ny - 2) THEN resX[j][i] ELSE Zero]]
        resY == Tabulate([i \in 1..(Nx - 2) |->
                  thomasAlgorithm(BoundaryA(Fill(Ny, Neg(ry2))),
                                  BoundaryB(Fill(Ny, Add(One, ry))),
                                  BoundaryC(Fill(Ny, Neg(ry2))),
                                  BoundaryD([j \in 0..(Ny - 1) |->
                                      IF j \in 1..(Ny - 2)
                                      THEN Add(uStar[i][j], Mul(rx2, D2x(uStar, i, j)))
                                      ELSE Zero]))],
                  1, Nx - 2)
    IN  [i \in 0..(Nx - 1) |-> [j \in 0..(Ny - 1) |->
            IF i \in 1..(Nx - 2) THEN resY[i][j] ELSE Zero]]


\* ------------------------------------------------------------------------
\* Unified page (part_001): its own copies of the 1D steppers and its 2D
\* sweeps over every row and column.  getSineIC, getAnalyticalSolution,
\* thomasAlgorithm, getSineIC2D, getAnalyticalSolution2D and forwardEuler2D
\* are the same text as in the standalone pages.
\* ------------------------------------------------------------------------

forwardEuler1D(u, r) ==
    LET n == ALen(u)
    IN  [i \in 0..(n - 1) |->
            IF i = 0 \/ i = n - 1 THEN Zero
            ELSE Add(u[i], Mul(r, Add(Sub(u[i + 1], Mul(Int2Num(2), u[i])),
                                      u[i - 1])))]

backwardEuler1D(u, r) ==
    LET n == ALen(u)
    IN  thomasAlgorithm(BoundaryA(Fill(n, Neg(r))),
                        BoundaryB(Fill(n, Add(One, Mul(Int2Num(2), r)))),
                        BoundaryC(Fill(n, Neg(r))),
                        BoundaryD(u))

crankNicolson1D(u, r) ==
    LET n  == ALen(u)
        r2 == Div(r, Int2Num(2))
    IN  thomasAlgorithm(BoundaryA(Fill(n, Neg(r2))),
                        BoundaryB(Fill(n, Add(One, r))),
                        BoundaryC(Fill(n, Neg(r2))),
                        BoundaryD([i \in 0..(n - 1) |->
                            IF i = 0 \/ i = n - 1 THEN Zero
                            ELSE Add(Mul(Sub(One, r), u[i]),
                                     Mul(r2, Add(u[i + 1], u[i - 1])))]))

\* the sweeps with the right-hand sides copied whole, d[0] and d[N-1] not
\* forced to 0
backwardEuler2D_ADI_rawBorder(u, rx, ry) ==
    LET Nx == ALen(u)
        Ny == ALen(u[0])
        solX == Tabulate([j \in 0..(Ny - 1) |->
                  thomasAlgorithm(BoundaryA(Fill(Nx, Neg(rx))),
                                  BoundaryB(Fill(Nx, Add(One, Mul(Int2Num(2), rx)))),
                                  BoundaryC(Fill(Nx, Neg(rx))),
                                  [i \in 0..(Nx - 1) |-> u[i][j]])],
                  0, Ny - 1)
        uHalf == [i \in 0..(Nx - 1) |-> [j \in 0..(Ny - 1) |-> solX[j][i]]]
        solY == Tabulate([i \in 0..(Nx - 1) |->
                  thomasAlgorithm(BoundaryA(Fill(Ny, Neg(ry))),
                                  BoundaryB(Fill(Ny, Add(One, Mul(Int2Num(2), ry)))),
                                  BoundaryC(Fill(Ny, Neg(ry))),
                                  [j \in 0..(Ny - 1) |-> uHalf[i][j]])],
                  0, Nx - 1)
    IN  [i \in 0..(Nx - 1) |-> [j \in 0..(Ny - 1) |-> solY[i][j]]]

\* X-sweep over every row j = 0..Ny-1, Y-sweep over every column i = 0..Nx-1
backwardEuler2D_ADI(u, rx, ry) ==
    LET Nx == ALen(u)
        Ny == ALen(u[0])
        solX == Tabulate([j \in 0..(Ny - 1) |->
                  thomasAlgorithm(BoundaryA(Fill(Nx, Neg(rx))),
                                  BoundaryB(Fill(Nx, Add(One, Mul(Int2Num(2), rx)))),
                                  BoundaryC(Fill(Nx, Neg(rx))),
                                  BoundaryD([i \in 0..(Nx - 1) |-> u[i][j]]))],
                  0, Ny - 1)
        uHalf == [i \in 0..(Nx - 1) |-> [j \in 0..(Ny - 1) |-> solX[j][i]]]
        solY == Tabulate([i \in 0..(Nx - 1) |->
                  thomasAlgorithm(BoundaryA(Fill(Ny, Neg(ry))),
                                  BoundaryB(Fill(Ny, Add(One, Mul(Int2Num(2), ry)))),
                                  BoundaryC(Fill(Ny, Neg(ry))),
                                  BoundaryD([j \in 0..(Ny - 1) |-> uHalf[i][j]]))],
                  0, Nx - 1)
    IN  [i \in 0..(Nx - 1) |-> [j \in 0..(Ny - 1) |-> solY[i][j]]]

\* X-sweep: d[i] = (1 - rx) * u[i][j] + rx2 * (u[i + 1][j] + u[i - 1][j]);
\* Y-sweep: d[j] = (1 - ry) * uHalf[i][j] + ry2 * (uHalf[i][j + 1] + uHalf[i][j - 1])
crankNicolson2D_ADI(u, rx, ry) ==
    LET Nx == ALen(u)
        Ny == ALen(u[0])
        rx2 == Div(rx, Int2Num(2))
        ry2 == Div(ry, Int2Num(2))
        solX == Tabulate([j \in 0..(Ny - 1) |->
                  thomasAlgorithm(BoundaryA(Fill(Nx, Neg(rx2))),
                                  BoundaryB(Fill(Nx, Add(One, rx))),
                                  BoundaryC(Fill(Nx, Neg(rx2))),
                                  BoundaryD([i \in 0..(Nx - 1) |->
                                      IF i \in 1..(Nx - 2)
                                      THEN Add(Mul(Sub(One, rx), u[i][j]),
                                               Mul(rx2, Add(u[i + 1][j], u[i - 1][j])))
                                      ELSE Zero]))],
                  0, Ny - 1)
        uHalf == [i \in 0..(Nx - 1) |-> [j \in 0..(Ny - 1) |-> solX[j][i]]]
        solY == Tabulate([i \in 0..(Nx - 1) |->
                  thomasAlgorithm(BoundaryA(Fill(Ny, Neg(ry2))),
                                  BoundaryB(Fill(Ny, Add(One, ry))),
                                  BoundaryC(Fill(Ny, Neg(ry2))),
                                  BoundaryD([j \in 0..(Ny - 1) |->
                                      IF j \in 1..(Ny - 2)
                                      THEN Add(Mul(Sub(One, ry), uHalf[i][j]),
                                               Mul(ry2, Add(uHalf[i][j + 1],
                                                            uHalf[i][j - 1])))
                                      ELSE Zero]))],
                  0, Nx - 1)
    IN  [i \in 0..(Nx - 1) |-> [j \in 0..(Ny - 1) |-> solY[i][j]]]


\* ------------------------------------------------------------------------
\* The pages' state
\* ------------------------------------------------------------------------

VARIABLES
    impl,              \* which page: "app1d" (part_000), "app2d" (2d/app.js),
                       \* "unified" (part_001)
    currentDimension,  \* "1d" or "2d"
    config,            \* config / sharedConfig
    state1d,           \* state of part_000, state1d of part_001
    state2d,           \* state of 2d/app.js, state2d of part_001
    frames,            \* the pending requestAnimationFrame callbacks
    running,           \* the animate call in progress and its loop index
    call               \* a solver or stepper called on its own: its name, its
                       \* arguments, and its return value once it has returned

vars ==
    <<impl, currentDimension, config, state1d, state2d, frames, running, call>>

\* no function is being called on its own: the pages run
noCall == [fn |-> "none"]

\* The pages start at Nx = 41, dt = 0.001, Tmax = 2.0, which exact rational
\* arithmetic cannot carry through a run; the model starts the same pages at
\* the first of the small values below, every one of which the controls
\* accept.  A run takes at most two steps to reach Tmax.
Methods     == {"forward-euler", "backward-euler", "crank-nicolson"}
NxValues    == {3, 5}
DtValues    == {<<25, 36>>, <<25, 32>>}
TmaxValues  == {<<1, 2>>, <<1, 1>>}
SpeedValues == {1, 2}

\* what parseFloat(dtInput.value) can return on the standalone pages: a
\* number in range, a number above the clamp, or NaN for text that is no
\* number
DtInputValues == DtValues \cup {<<2, 1>>, NaN}

\* a cap on the steps of one run, for the runs that never reach Tmax
MaxSteps == 3

\* a cap on the pending callbacks: Play is pressed while fewer are pending
MaxFrames == 1

\* JavaScript null: for a number, for an array
null      == <<0, -1>>
nullArray == <<>>

\* The divergence threshold of animate
DivergedThreshold == 10

\* Math.max(...u.map(Math.abs)) over the indices lo..hi (NaN once any entry is)
RECURSIVE MaxAbs(_, _, _)
MaxAbs(u, lo, hi) ==
    IF lo > hi THEN NInf
    ELSE LET m == MaxAbs(u, lo + 1, hi)
             v == Abs(u[lo])
         IN  IF IsNaN(v) \/ IsNaN(m) THEN NaN
             ELSE IF Lt(m, v) THEN v ELSE m

\* a check that takes the threshold itself for a divergence
Exceeds1D_inclusive(u) ==
    \/ Geq(MaxAbs(u, 0, ALen(u) - 1), Int2Num(DivergedThreshold))
    \/ \E i \in DOMAIN u : ~isFinite(u[i])

\* maxVal > 10 || u.some(v => !isFinite(v))
Exceeds1D(u) ==
    \/ Gt(MaxAbs(u, 0, ALen(u) - 1), Int2Num(DivergedThreshold))
    \/ \E i \in DOMAIN u : ~isFinite(u[i])

\* requestAnimationFrame for the animate of dimension fn: an id that no
\* pending callback has and that the other state does not hold (the state of
\* fn stores the new id over the one it holds)
NewFrameId(fn) ==
    CHOOSE id \in 1..(Cardinality(frames) + 2) :
        /\ \A f \in frames : f.id # id
        /\ id # (IF fn = "1d" THEN state2d.animationId ELSE state1d.animationId)

\* ------------------------------------------------------------------------
\* part_000: the standalone 1D page
\* ------------------------------------------------------------------------

\* Array.from({ length: Nx }, (_, i) => i * dx)
Grid(Nx, dx) == [i \in 0..(Nx - 1) |-> Mul(Int2Num(i), dx)]

initSimulation(cfg, st) ==
    LET dx == Div(L, Int2Num(cfg.Nx - 1))
        x  == Grid(cfg.Nx, dx)
    IN  [st EXCEPT !.dx = dx,
                   !.x = x,
                   !.r = Div(Mul(alpha, cfg.dt), Mul(dx, dx)),
                   !.t = Zero,
                   !.nSteps = 0,
                   !.flops = 0,
                   !.hasDiverged = FALSE,
                   !.u = getSineIC(x),
                   !.uExact = getAnalyticalSolution(x, Zero)]

stepNumerical(cfg, st) ==
    LET N == cfg.Nx
    IN  CASE cfg.method = "forward-euler" ->
               [st EXCEPT !.u = forwardEuler(st.u, st.r),
                          !.flops = @ + 5 * (N - 2)]
          [] cfg.method = "backward-euler" ->
               [st EXCEPT !.u = backwardEuler(st.u, st.r),
                          !.flops = @ + 8 * N]
          [] cfg.method = "crank-nicolson" ->
               [st EXCEPT !.u = crankNicolson(st.u, st.r),
                          !.flops = @ + 12 * N]
          [] OTHER -> st

\* a timeStep that regenerates uExact before it advances t
AdvanceTime1D_staleExact(cfg, s1) ==
    [s1 EXCEPT !.t = Add(s1.t, cfg.dt),
               !.nSteps = @ + 1,
               !.uExact = getAnalyticalSolution(s1.x, s1.t)]

\* timeStep after stepNumerical has left the state s1: t += dt; nSteps++;
\* uExact = getAnalyticalSolution(x, t)
AdvanceTime1D(cfg, s1) ==
    [s1 EXCEPT !.t = Add(s1.t, cfg.dt),
               !.nSteps = @ + 1,
               !.uExact = getAnalyticalSolution(s1.x, Add(s1.t, cfg.dt))]

\* the same for the 2D states
AdvanceTime2D(cfg, s1) ==
    [s1 EXCEPT !.t = Add(s1.t, cfg.dt),
               !.nSteps = @ + 1,
               !.uExact = getAnalyticalSolution2D(s1.x, s1.y, Add(s1.t, cfg.dt))]

timeStep(cfg, st) == AdvanceTime1D(cfg, stepNumerical(cfg, st))

\* a check that follows the field instead of latching
checkDiverged_tracksField(st) == [st EXCEPT !.hasDiverged = Exceeds1D(st.u)]

\* the divergence check of animate: sets hasDiverged, never clears it
checkDiverged(st) ==
    IF Exceeds1D(st.u) /\ ~st.hasDiverged
    THEN [st EXCEPT !.hasDiverged = TRUE]
    ELSE st

\* stopAnimation: the state part; the cancelled callback is CancelFrame
stopAnimation(st) == [st EXCEPT !.isPlaying = FALSE, !.animationId = 0]

\* cancelAnimationFrame(st.animationId), when animationId is set
CancelFrame(st, fs) == {f \in fs : f.id # st.animationId}

\* a reset that stops the animation and forgets to re-initialise
reset_onlyStops(cfg, st) == stopAnimation(st)

\* reset(): the state part
reset(cfg, st) == initSimulation(cfg, stopAnimation(st))

\* the dt handler: parseFloat, the clamp to [0.0001, 1.0] (a NaN passes both
\* comparisons), config.dt = val
clampDt(val) ==
    LET v1 == IF Lt(val, <<1, 10000>>) THEN <<1, 10000>> ELSE val
    IN  IF Gt(v1, One) THEN One ELSE v1

\* ------------------------------------------------------------------------
\* 2d/app.js: the standalone 2D page
\* ------------------------------------------------------------------------

initSimulation_2d(cfg, st) ==
    LET dx == Div(L, Int2Num(cfg.Nx - 1))
        dy == Div(L, Int2Num(cfg.Nx - 1))
        x  == Grid(cfg.Nx, dx)
        y  == Grid(cfg.Nx, dy)
    IN  [st EXCEPT !.dx = dx,
                   !.dy = dy,
                   !.x = x,
                   !.y = y,
                   !.rx = Div(Mul(alpha, cfg.dt), Mul(dx, dx)),
                   !.ry = Div(Mul(alpha, cfg.dt), Mul(dy, dy)),
                   !.t = Zero,
                   !.nSteps = 0,
                   !.flops = 0,
                   !.hasDiverged = FALSE,
                   !.u = getSineIC2D(x, y),
                   !.uExact = getAnalyticalSolution2D(x, y, Zero)]

stepNumerical_2d(cfg, st) ==
    LET N == cfg.Nx
    IN  CASE cfg.method = "forward-euler" ->
               [st EXCEPT !.u = forwardEuler2D(st.u, st.rx, st.ry),
                          !.flops = @ + 10 * N * N]
          [] cfg.method = "backward-euler" ->
               [st EXCEPT !.u = backwardEulerADI(st.u, st.rx, st.ry),
                          !.flops = @ + 16 * N * N]
          [] cfg.method = "crank-nicolson" ->
               [st EXCEPT !.u = crankNicolsonADI(st.u, st.rx, st.ry),
                          !.flops = @ + 24 * N * N]
          [] OTHER -> st

timeStep_2d(cfg, st) == AdvanceTime2D(cfg, stepNumerical_2d(cfg, st))

\* centerVal = Math.abs(u[Math.floor(Nx / 2)][Math.floor(Nx / 2)])
centerVal(cfg, st) == Abs(st.u[cfg.Nx \div 2][cfg.Nx \div 2])

\* centerVal > 10 || !isFinite(centerVal)
Exceeds2D(cfg, st) ==
    \/ Gt(centerVal(cfg, st), Int2Num(DivergedThreshold))
    \/ ~isFinite(centerVal(cfg, st))

checkDiverged_2d(cfg, st) ==
    IF Exceeds2D(cfg, st) /\ ~st.hasDiverged
    THEN [st EXCEPT !.hasDiverged = TRUE]
    ELSE st

\* a reset that forgets the operation count
reset_2d_keepsCost(st) ==
    [stopAnimation(st) EXCEPT
        !.t = Zero,
        !.nSteps = 0,
        !.hasDiverged = FALSE,
        !.u = getSineIC2D(st.x, st.y),
        !.uExact = getAnalyticalSolution2D(st.x, st.y, Zero)]

\* reset(): the state part; the grid and rx, ry are kept
reset_2d(st) ==
    [stopAnimation(st) EXCEPT
        !.t = Zero,
        !.nSteps = 0,
        !.flops = 0,
        !.hasDiverged = FALSE,
        !.u = getSineIC2D(st.x, st.y),
        !.uExact = getAnalyticalSolution2D(st.x, st.y, Zero)]

\* ------------------------------------------------------------------------
\* part_001: the unified page
\* ------------------------------------------------------------------------

initSimulation1D(cfg, st) ==
    LET dx == Div(L, Int2Num(cfg.Nx - 1))
        x  == Grid(cfg.Nx, dx)
    IN  [st EXCEPT !.dx = dx,
                   !.x = x,
                   !.r = Div(Mul(alpha, cfg.dt), Mul(dx, dx)),
                   !.t = Zero,
                   !.nSteps = 0,
                   !.flops = 0,
                   !.hasDiverged = FALSE,
                   !.u = getSineIC(x),
                   !.uExact = getAnalyticalSolution(x, Zero)]

\* a stepper dispatch that charges nothing for the explicit method
stepNumerical1D_explicitFree(cfg, st) ==
    LET N == cfg.Nx
    IN  CASE cfg.method = "forward-euler" ->
               [st EXCEPT !.u = forwardEuler1D(st.u, st.r)]
          [] cfg.method = "backward-euler" ->
               [st EXCEPT !.u = backwardEuler1D(st.u, st.r),
                          !.flops = @ + 8 * N]
          [] cfg.method = "crank-nicolson" ->
               [st EXCEPT !.u = crankNicolson1D(st.u, st.r),
                          !.flops = @ + 12 * N]
          [] OTHER -> st

stepNumerical1D(cfg, st) ==
    LET N == cfg.Nx
    IN  CASE cfg.method = "forward-euler" ->
               [st EXCEPT !.u = forwardEuler1D(st.u, st.r),
                          !.flops = @ + 5 * (N - 2)]
          [] cfg.method = "backward-euler" ->
               [st EXCEPT !.u = backwardEuler1D(st.u, st.r),
                          !.flops = @ + 8 * N]
          [] cfg.method = "crank-nicolson" ->
               [st EXCEPT !.u = crankNicolson1D(st.u, st.r),
                          !.flops = @ + 12 * N]
          [] OTHER -> st

timeStep1D(cfg, st) == AdvanceTime1D(cfg, stepNumerical1D(cfg, st))

\* a check that stops the animation when it raises the flag
checkDiverged1D_halts(st) ==
    IF Exceeds1D(st.u) /\ ~st.hasDiverged
    THEN [st EXCEPT !.hasDiverged = TRUE, !.isPlaying = FALSE]
    ELSE st

\* the divergence check of animate1D
checkDiverged1D(st) ==
    IF Exceeds1D(st.u) /\ ~st.hasDiverged
    THEN [st EXCEPT !.hasDiverged = TRUE]
    ELSE st

initSimulation2D(cfg, st) ==
    LET dx == Div(L, Int2Num(cfg.Nx - 1))
        x  == Grid(cfg.Nx, dx)
        rx == Div(Mul(alpha, cfg.dt), Mul(dx, dx))
    IN  [st EXCEPT !.dx = dx,
                   !.dy = dx,
                   !.x = x,
                   !.y = x,
                   !.rx = rx,
                   !.ry = rx,
                   !.t = Zero,
                   !.nSteps = 0,
                   !.flops = 0,
                   !.hasDiverged = FALSE,
                   !.u = getSineIC2D(x, x),
                   !.uExact = getAnalyticalSolution2D(x, x, Zero)]

stepNumerical2D(cfg, st) ==
    LET N == cfg.Nx
    IN  CASE cfg.method = "forward-euler" ->
               [st EXCEPT !.u = forwardEuler2D(st.u, st.rx, st.ry),
                          !.flops = @ + 9 * (N - 2) * (N - 2)]
          [] cfg.method = "backward-euler" ->
               [st EXCEPT !.u = backwardEuler2D_ADI(st.u, st.rx, st.ry),
                          !.flops = @ + 16 * N * N]
          [] cfg.method = "crank-nicolson" ->
               [st EXCEPT !.u = crankNicolson2D_ADI(st.u, st.rx, st.ry),
                          !.flops = @ + 24 * N * N]
          [] OTHER -> st

timeStep2D(cfg, st) == AdvanceTime2D(cfg, stepNumerical2D(cfg, st))

\* updateErrorChart reads state2d.u[i][jMid] for i < sharedConfig.Nx: a
\* TypeError once sharedConfig.Nx exceeds the number of rows of the field
updateErrorChartThrows(cfg, st) == cfg.Nx > ALen(st.u)

stopAnimation1D(st) == [st EXCEPT !.isPlaying = FALSE, !.animationId = 0]

stopAnimation2D(st) == [st EXCEPT !.isPlaying = FALSE, !.animationId = 0]

\* reset() of part_001, in 1D and in 2D mode
reset_u1d(cfg, st) == initSimulation1D(cfg, stopAnimation1D(st))

reset_u2d(cfg, st) == initSimulation2D(cfg, stopAnimation2D(st))

\* ------------------------------------------------------------------------
\* The state after construction
\* ------------------------------------------------------------------------

Impls == {"app1d", "app2d", "unified"}

config0 ==
    [method         |-> "forward-euler",
     Nx             |-> 3,
     dt             |-> <<25, 32>>,
     Tmax           |-> <<1, 1>>,
     animationSpeed |-> 1]

blank1d ==
    [t |-> Zero, nSteps |-> 0, flops |-> 0, u |-> nullArray,
     uExact |-> nullArray, x |-> nullArray, dx |-> null, r |-> null,
     isPlaying |-> FALSE, animationId |-> 0, hasDiverged |-> FALSE]

blank2d ==
    [t |-> Zero, nSteps |-> 0, flops |-> 0, u |-> nullArray,
     uExact |-> nullArray, x |-> nullArray, y |-> nullArray,
     dx |-> null, dy |-> null, rx |-> null, ry |-> null,
     isPlaying |-> FALSE, animationId |-> 0, hasDiverged |-> FALSE]

\* the dimension a page opens in
Dimension0(p) == IF p = "app2d" THEN "2d" ELSE "1d"

\* DOMContentLoaded: initSimulation() / initSimulation1D()
State1d0(p) ==
    CASE p = "app1d"   -> initSimulation(config0, blank1d)
      [] p = "unified" -> initSimulation1D(config0, blank1d)
      [] OTHER         -> blank1d

State2d0(p) ==
    IF p = "app2d" THEN initSimulation_2d(config0, blank2d) ELSE blank2d

idle == [fn |-> "none", i |-> 0]

Init ==
    /\ impl \in Impls
    /\ currentDimension = Dimension0(impl)
    /\ config = config0
    /\ state1d = State1d0(impl)
    /\ state2d = State2d0(impl)
    /\ frames = {}
    /\ running = idle
    /\ call = noCall

\* ------------------------------------------------------------------------
\* The drivers
\* ------------------------------------------------------------------------

\* the state the current dimension works on
Cur == IF currentDimension = "1d" THEN state1d ELSE state2d

SetCur(s) ==
    /\ state1d' = IF currentDimension = "1d" THEN s ELSE state1d
    /\ state2d' = IF currentDimension = "2d" THEN s ELSE state2d

\* state.t >= config.Tmax
Completed(cfg, st) == Geq(st.t, cfg.Tmax)

\* the runs the model follows: a tick is started when it ends at Tmax or
\* within the cap on steps
CanTick(cfg, st) ==
    Completed(cfg, st) \/ st.nSteps + cfg.animationSpeed <= MaxSteps

\* a loop that checks for divergence on the last pass of a tick only
LoopBody_checkLastPassOnly(p, dim, cfg, st, i) ==
    IF i # cfg.animationSpeed - 1
    THEN CASE p = "app1d" -> timeStep(cfg, st)
           [] p = "app2d" -> timeStep_2d(cfg, st)
           [] p = "unified" /\ dim = "1d" -> timeStep1D(cfg, st)
           [] OTHER -> timeStep2D(cfg, st)
    ELSE CASE p = "app1d" -> checkDiverged(timeStep(cfg, st))
           [] p = "app2d" -> checkDiverged_2d(cfg, timeStep_2d(cfg, st))
           [] p = "unified" /\ dim = "1d" -> checkDiverged1D(timeStep1D(cfg, st))
           [] OTHER -> timeStep2D(cfg, st)

\* the body of the for loop of animate / animate1D / animate2D, after the
\* Tmax test: timeStep and the divergence check; i is the loop index
LoopBody(p, dim, cfg, st, i) ==
    CASE p = "app1d" -> checkDiverged(timeStep(cfg, st))
      [] p = "app2d" -> checkDiverged_2d(cfg, timeStep_2d(cfg, st))
      [] p = "unified" /\ dim = "1d" -> checkDiverged1D(timeStep1D(cfg, st))
      [] OTHER -> timeStep2D(cfg, st)

\* the chart updates after the loop and in the Tmax branch throw only on the
\* unified page in 2D mode
UpdateThrows(p, dim, cfg, st) ==
    p = "unified" /\ dim = "2d" /\ updateErrorChartThrows(cfg, st)

\* togglePlayPause: stopAnimation, or startAnimation, which enters animate
PlayPauseClick ==
    /\ running = idle
    /\ IF Cur.isPlaying
       THEN /\ SetCur(stopAnimation(Cur))
            /\ frames' = CancelFrame(Cur, frames)
            /\ running' = running
       ELSE /\ CanTick(config, Cur)
            /\ Cardinality(frames) < MaxFrames
            /\ SetCur([Cur EXCEPT !.isPlaying = TRUE])
            /\ frames' = frames
            /\ running' = [fn |-> currentDimension, i |-> 0]
    /\ UNCHANGED <<call, impl, currentDimension, config>>

\* the browser runs a pending callback: animate returns at once when the
\* state is not playing, and enters its loop otherwise
AnimationFrame ==
    /\ running = idle
    /\ \E f \in frames :
          LET st == IF f.fn = "1d" THEN state1d ELSE state2d
          IN  /\ frames' = frames \ {f}
              /\ IF st.isPlaying
                 THEN /\ CanTick(config, st)
                      /\ running' = [fn |-> f.fn, i |-> 0]
                 ELSE running' = running
    /\ UNCHANGED <<call, impl, currentDimension, config, state1d, state2d>>

\* the state the animate call in progress works on
Run == IF running.fn = "1d" THEN state1d ELSE state2d

SetRun(s) ==
    /\ state1d' = IF running.fn = "1d" THEN s ELSE state1d
    /\ state2d' = IF running.fn = "2d" THEN s ELSE state2d

\* state.animationId = requestAnimationFrame(animate)
Schedule(st) == [st EXCEPT !.animationId = NewFrameId(running.fn)]

\* one pass of the for loop with t < Tmax
LoopIter ==
    /\ running # idle
    /\ running.i < config.animationSpeed
    /\ ~Completed(config, Run)
    /\ SetRun(LoopBody(impl, running.fn, config, Run, running.i))
    /\ running' = [running EXCEPT !.i = @ + 1]
    /\ UNCHANGED <<call, impl, currentDimension, config, frames>>

\* a pass of the for loop with t >= Tmax: the charts are updated,
\* stopAnimation, return.  When the chart update throws, the catch block
\* calls stopAnimation and animate goes on to requestAnimationFrame.
LoopTmax ==
    /\ running # idle
    /\ running.i < config.animationSpeed
    /\ Completed(config, Run)
    /\ IF UpdateThrows(impl, running.fn, config, Run)
       THEN /\ SetRun(Schedule(stopAnimation2D(Run)))
            /\ frames' = CancelFrame(Run, frames)
                            \cup {[id |-> NewFrameId(running.fn), fn |-> running.fn]}
       ELSE /\ SetRun(stopAnimation(Run))
            /\ frames' = CancelFrame(Run, frames)
    /\ running' = idle
    /\ UNCHANGED <<call, impl, currentDimension, config>>

\* the loop has run animationSpeed passes: the charts are updated (a throw
\* is caught and stops the animation) and the next frame is requested
LoopExit ==
    /\ running # idle
    /\ running.i >= config.animationSpeed
    /\ IF UpdateThrows(impl, running.fn, config, Run)
       THEN /\ SetRun(Schedule(stopAnimation2D(Run)))
            /\ frames' = CancelFrame(Run, frames)
                            \cup {[id |-> NewFrameId(running.fn), fn |-> running.fn]}
       ELSE /\ SetRun(Schedule(Run))
            /\ frames' = frames \cup {[id |-> NewFrameId(running.fn), fn |-> running.fn]}
    /\ running' = idle
    /\ UNCHANGED <<call, impl, currentDimension, config>>

\* ------------------------------------------------------------------------
\* The controls
\* ------------------------------------------------------------------------

\* reset() of page p in dimension dim, on the state st of that dimension
ResetOf(p, dim, cfg, st) ==
    CASE p = "app1d" -> reset(cfg, st)
      [] p = "app2d" -> reset_2d(st)
      [] p = "unified" /\ dim = "1d" -> reset_u1d(cfg, st)
      [] OTHER -> reset_u2d(cfg, st)

\* reset() of the page, on the state of the current dimension
ResetCur(cfg) == ResetOf(impl, currentDimension, cfg, Cur)

\* the reset button
ResetClick ==
    /\ running = idle
    /\ UNCHANGED <<call, impl, currentDimension, config, running>>
    /\ frames' = CancelFrame(Cur, frames)
    /\ SetCur(ResetCur(config))

\* a method button: config.method = btn.dataset.method; reset()
MethodClick ==
    /\ running = idle
    /\ UNCHANGED <<call, impl, currentDimension, running>>
    /\ frames' = CancelFrame(Cur, frames)
    /\ \E m \in Methods :
          /\ config' = [config EXCEPT !.method = m]
          /\ SetCur(ResetCur(config'))

\* the dt field of the standalone pages, 'change': parse, clamp, the
\* diffusion numbers, reset()
DtChange ==
    /\ running = idle
    /\ impl \in {"app1d", "app2d"}
    /\ UNCHANGED <<call, impl, currentDimension, running>>
    /\ frames' = CancelFrame(Cur, frames)
    /\ \E val \in DtInputValues :
          /\ config' = [config EXCEPT !.dt = clampDt(val)]
          /\ IF impl = "app1d"
             THEN /\ state1d' = reset(config', state1d)
                  /\ state2d' = state2d
             ELSE /\ state2d' = reset_2d(
                        [state2d EXCEPT
                           !.rx = Div(Mul(alpha, config'.dt),
                                      Mul(state2d.dx, state2d.dx)),
                           !.ry = Div(Mul(alpha, config'.dt),
                                      Mul(state2d.dy, state2d.dy))])
                  /\ state1d' = state1d

\* the dt slider of the unified page, 'input': sharedConfig.dt only
DtSliderInput ==
    /\ running = idle
    /\ impl = "unified"
    /\ \E val \in DtValues : config' = [config EXCEPT !.dt = val]
    /\ UNCHANGED <<call, impl, currentDimension, state1d, state2d, frames, running>>

\* the dt slider of the unified page, 'change': reset()
DtSliderChange ==
    /\ running = idle
    /\ impl = "unified"
    /\ UNCHANGED <<call, impl, currentDimension, config, running>>
    /\ frames' = CancelFrame(Cur, frames)
    /\ SetCur(ResetCur(config))

\* the Nx slider, 'input': reset() on the standalone 1D page,
\* initSimulation() on the standalone 2D page, sharedConfig.Nx only on the
\* unified page
NxSliderInput ==
    /\ running = idle
    /\ UNCHANGED <<call, impl, currentDimension, running>>
    /\ \E n \in NxValues :
          /\ config' = [config EXCEPT !.Nx = n]
          /\ CASE impl = "app1d" ->
                    /\ frames' = CancelFrame(state1d, frames)
                    /\ state2d' = state2d
                    /\ state1d' = reset(config', state1d)
               [] impl = "app2d" ->
                    /\ frames' = frames
                    /\ state1d' = state1d
                    /\ state2d' = initSimulation_2d(config', state2d)
               [] OTHER ->
                    UNCHANGED <<state1d, state2d, frames>>

\* the Nx slider of the unified page, 'change': reset()
NxSliderChange ==
    /\ running = idle
    /\ impl = "unified"
    /\ UNCHANGED <<call, impl, currentDimension, config, running>>
    /\ frames' = CancelFrame(Cur, frames)
    /\ SetCur(ResetCur(config))

\* the Tmax slider, 'input'
TmaxInput ==
    /\ running = idle
    /\ \E val \in TmaxValues : config' = [config EXCEPT !.Tmax = val]
    /\ UNCHANGED <<call, impl, currentDimension, state1d, state2d, frames, running>>

\* the speed slider, 'input'
SpeedInput ==
    /\ running = idle
    /\ \E s \in SpeedValues : config' = [config EXCEPT !.animationSpeed = s]
    /\ UNCHANGED <<call, impl, currentDimension, state1d, state2d, frames, running>>

\* The fields of the dimension that switchDimension leaves are read by
\* nothing until initSimulation1D / initSimulation2D overwrites them on the
\* way back; the model keeps of that state what the page can still read,
\* isPlaying and animationId.
Left1d(st) ==
    [blank1d EXCEPT !.isPlaying = st.isPlaying, !.animationId = st.animationId]

Left2d(st) ==
    [blank2d EXCEPT !.isPlaying = st.isPlaying, !.animationId = st.animationId]

\* switchDimension(dimension) of the unified page
switchDimension ==
    /\ running = idle
    /\ impl = "unified"
    /\ UNCHANGED <<call, impl, config, running>>
    /\ \E dimension \in {"1d", "2d"} :
          /\ dimension # currentDimension
          /\ currentDimension' = dimension
          /\ IF dimension = "1d"
             THEN /\ state2d' = Left2d(IF state2d.isPlaying
                                       THEN stopAnimation2D(state2d)
                                       ELSE state2d)
                  /\ state1d' = initSimulation1D(config, state1d)
                  /\ frames' = IF state2d.isPlaying
                               THEN CancelFrame(state2d, frames) ELSE frames
             ELSE /\ state1d' = Left1d(IF state1d.isPlaying
                                       THEN stopAnimation1D(state1d)
                                       ELSE state1d)
                  /\ state2d' = initSimulation2D(config, state2d)
                  /\ frames' = IF state1d.isPlaying
                               THEN CancelFrame(state1d, frames) ELSE frames

Next ==
    \/ PlayPauseClick
    \/ AnimationFrame
    \/ LoopIter
    \/ LoopTmax
    \/ LoopExit
    \/ ResetClick
    \/ MethodClick
    \/ DtChange
    \/ DtSliderInput
    \/ DtSliderChange
    \/ NxSliderInput
    \/ NxSliderChange
    \/ TmaxInput
    \/ SpeedInput
    \/ switchDimension

Spec == Init /\ [][Next]_vars

\* ------------------------------------------------------------------------
\* The pages started from an arbitrary field
\* ------------------------------------------------------------------------

\* On the grids of NxValues the diffusion numbers stay below 1/2 and exact
\* arithmetic keeps every run from the sine initial condition bounded, so
\* Spec does not reach the large or non-finite fields that the pages reach
\* on fine grids.  SpecAny starts each page from a field with one centre
\* value drawn from AnyAmplitudes; everything else is as after construction.
AnyAmplitudes == {<<32, 3>>, <<11, 1>>, <<12, 1>>, PInf}

Spike1D(n, c) == [i \in 0..(n - 1) |-> IF i = n \div 2 THEN c ELSE Zero]

Spike2D(n, c) ==
    [i \in 0..(n - 1) |-> [j \in 0..(n - 1) |->
        IF i = n \div 2 /\ j = n \div 2 THEN c ELSE Zero]]

InitAny ==
    /\ impl \in Impls
    /\ currentDimension \in {"1d", "2d"}
    /\ impl = "app1d" => currentDimension = "1d"
    /\ impl = "app2d" => currentDimension = "2d"
    /\ config = config0
    /\ \E c \in AnyAmplitudes :
          /\ state1d =
                IF currentDimension = "2d" THEN blank1d
                ELSE [State1d0(impl) EXCEPT !.u = Spike1D(config0.Nx, c)]
          /\ state2d =
                IF currentDimension = "1d" THEN blank2d
                ELSE [initSimulation2D(config0, blank2d) EXCEPT
                         !.u = Spike2D(config0.Nx, c)]
    /\ frames = {}
    /\ running = idle
    /\ call = noCall

SpecAny == InitAny /\ [][Next]_vars

\* ------------------------------------------------------------------------
\* Properties
\* ------------------------------------------------------------------------

\* u[0] = u[n-1] = 0
ZeroEnds1D(u) == u[0] = Zero /\ u[ALen(u) - 1] = Zero

\* every entry of the first and last row and of the first and last column is 0
ZeroBorder2D(u) ==
    \A i \in DOMAIN u : \A j \in DOMAIN u[i] :
        (i = 0 \/ i = ALen(u) - 1 \/ j = 0 \/ j = ALen(u[i]) - 1)
            => u[i][j] = Zero

\* C1: after any step, with any method and on any page, the 1D field is 0
\* at both ends and the 2D field is 0 on its whole border.
C1_BoundaryInvariant ==
    /\ state1d.nSteps > 0 => ZeroEnds1D(state1d.u)
    /\ state2d.nSteps > 0 => ZeroBorder2D(state2d.u)

\* NaN as dt on a standalone page with an implicit method: the run that ends
\* with a field that is NaN at its ends
C1_NaNStepTaken ==
    /\ impl = "app1d"
    /\ IsNaN(config.dt)
    /\ config.method = "backward-euler"
    /\ state1d.nSteps > 0

\* a handler that re-initialises the simulation has run: the reset button, a
\* method button, the dt field, the Nx slider of the standalone pages, the
\* 'change' events of the sliders of the unified page, a dimension switch
IsReinit ==
    \/ ResetClick
    \/ MethodClick
    \/ DtChange
    \/ DtSliderChange
    \/ NxSliderChange
    \/ (NxSliderInput /\ impl # "unified")
    \/ switchDimension

\* the initial condition on the grid of Nx points, in 1D and in 2D
IC1D(Nx) == getSineIC(Grid(Nx, Div(L, Int2Num(Nx - 1))))

IC2D(Nx) ==
    getSineIC2D(Grid(Nx, Div(L, Int2Num(Nx - 1))),
                Grid(Nx, Div(L, Int2Num(Nx - 1))))

\* the state of the dimension on display after the step
CurNext == IF currentDimension' = "1d" THEN state1d' ELSE state2d'

\* t, step count and cost are 0, the flag is down, u = uExact = the initial
\* condition on the grid of Nx points
ResetPost(dim, cfg, st) ==
    /\ st.t = Zero
    /\ st.nSteps = 0
    /\ st.flops = 0
    /\ ~st.hasDiverged
    /\ st.u = st.uExact
    /\ st.u = IF dim = "1d" THEN IC1D(cfg.Nx) ELSE IC2D(cfg.Nx)

\* C2: immediately after a reset (reset button, method change, dt change,
\* Nx change, dimension switch) t = 0, the step count and the cost are 0,
\* the diverged flag is false, and u = uExact = the initial condition on the
\* current grid.
C2_ResetPostcondition ==
    [][IsReinit => ResetPost(currentDimension', config', CurNext)]_vars

\* a reset has re-built the field on a grid and for a method other than the
\* ones the page started with
C2_Witness ==
    /\ impl = "app2d"
    /\ config.Nx = 5
    /\ config.method = "crank-nicolson"
    /\ ALen(state2d.u) = 5
    /\ state2d.nSteps = 0
    /\ state2d.u = state2d.uExact

\* a handler that calls reset() has run
IsResetCall ==
    \/ ResetClick
    \/ MethodClick
    \/ DtChange
    \/ DtSliderChange
    \/ NxSliderChange
    \/ (NxSliderInput /\ impl = "app1d")

\* the state a page builds for the parameters cfg when nothing has run yet
FreshState(p, dim, cfg) ==
    CASE p = "app1d" -> initSimulation(cfg, blank1d)
      [] p = "app2d" -> initSimulation_2d(cfg, blank2d)
      [] p = "unified" /\ dim = "1d" -> initSimulation1D(cfg, blank1d)
      [] OTHER -> initSimulation2D(cfg, blank2d)

\* C3: a second reset with the same parameters leaves the state that the
\* first reset produced (grid, u, uExact, t, step count, cost, flag,
\* diffusion number), and that state is the one the parameters alone
\* determine, whatever was stepped before the reset.
C3_ResetIdempotent ==
    [][IsResetCall =>
          /\ ResetOf(impl', currentDimension', config', CurNext) = CurNext
          /\ CurNext = FreshState(impl', currentDimension', config')]_vars

\* a reset has brought a stepped state back: the state is the fresh one for
\* parameters other than those of construction
C3_Witness ==
    /\ impl = "unified"
    /\ currentDimension = "2d"
    /\ config.Nx = 5
    /\ config.method = "backward-euler"
    /\ state2d = FreshState(impl, currentDimension, config)

\* a pass of the stepping loop has run: timeStep and the divergence check
IsTimeStep ==
    /\ running # idle
    /\ running' # idle
    /\ running'.i = running.i + 1

\* the state that the animate call in progress works on, after the step
RunNext == IF running.fn = "1d" THEN state1d' ELSE state2d'

\* the analytical field of dimension dim on the grid of st at time t
ExactAt(dim, st, t) ==
    IF dim = "1d" THEN getAnalyticalSolution(st.x, t)
    ELSE getAnalyticalSolution2D(st.x, st.y, t)

\* the grid and the diffusion numbers of a state of dimension dim
GridOf(dim, st) ==
    IF dim = "1d" THEN <<st.x, st.dx, st.r>>
    ELSE <<st.x, st.y, st.dx, st.dy, st.rx, st.ry>>

StepBookkeeping(dim, cfg, st, st1) ==
    /\ st1.nSteps = st.nSteps + 1
    /\ st1.t = Add(st.t, cfg.dt)
    /\ st1.uExact = ExactAt(dim, st, st1.t)
    /\ GridOf(dim, st1) = GridOf(dim, st)

\* C4: every time step adds 1 to the step count and dt to t, replaces uExact
\* by the analytical field at the new t, and leaves the grid, the diffusion
\* number and the parameters as they were.
C4_StepBookkeeping ==
    [][IsTimeStep =>
          /\ StepBookkeeping(running.fn, config, Run, RunNext)
          /\ config' = config]_vars

\* two steps have been taken and uExact has moved away from the initial
\* condition
C4_Witness ==
    /\ state1d.nSteps = 2
    /\ state1d.t = Add(config.dt, config.dt)
    /\ state1d.uExact # getSineIC(state1d.x)
    /\ state1d.uExact = getAnalyticalSolution(state1d.x, state1d.t)

\* C5: once the diverged flag of a state is true it stays true through
\* steps, pause, play and Tmax changes, also when the field has fallen back
\* under the threshold; only a re-initialisation clears it.
C5_FlagSticky ==
    [][((state1d.hasDiverged /\ ~state1d'.hasDiverged)
          \/ (state2d.hasDiverged /\ ~state2d'.hasDiverged)) => IsReinit]_vars

\* the flag is up, steps went on, and no entry of the field is over the
\* threshold any more
C5_Witness ==
    /\ state1d.hasDiverged
    /\ state1d.nSteps >= 2
    /\ ~Exceeds1D(state1d.u)

\* timeStep of page p in dimension dim
TimeStepOf(p, dim, cfg, st) ==
    CASE p = "app1d" -> timeStep(cfg, st)
      [] p = "app2d" -> timeStep_2d(cfg, st)
      [] p = "unified" /\ dim = "1d" -> timeStep1D(cfg, st)
      [] OTHER -> timeStep2D(cfg, st)

\* a callback of the animate of dimension dim is pending under the id that
\* the state holds
FramePending(dim, st) ==
    \E f \in frames : f.fn = dim /\ f.id = st.animationId

PlayingOn(dim, st) ==
    (running = idle /\ st.isPlaying /\ st.hasDiverged) => FramePending(dim, st)

\* C6: with the diverged flag up the driver steps as before: a pass of the
\* loop leaves exactly the state that timeStep yields, flag aside, isPlaying
\* stays true, and between ticks the next callback is pending.
C6_DivergedKeepsStepping ==
    /\ [](PlayingOn("1d", state1d) /\ PlayingOn("2d", state2d))
    /\ [][(IsTimeStep /\ RunNext.hasDiverged) =>
             /\ RunNext = [TimeStepOf(impl, running.fn, config, Run)
                              EXCEPT !.hasDiverged = TRUE]
             /\ RunNext.isPlaying
             /\ frames' = frames]_vars

\* the flag is up, a further step has been taken and the animation is
\* still playing, with its next callback pending
C6_Witness ==
    /\ running = idle
    /\ state1d.hasDiverged
    /\ state1d.isPlaying
    /\ state1d.nSteps = 2
    /\ FramePending("1d", state1d)

\* some entry of u is over the threshold in absolute value, or not finite
OverThreshold(u) ==
    \E i \in DOMAIN u :
        ~isFinite(u[i]) \/ Gt(Abs(u[i]), Int2Num(DivergedThreshold))

\* C7: in both 1D drivers, once a step has been taken, a field with an entry
\* over 10 in absolute value or not finite has the flag up before the next
\* step starts; a step that leaves every entry finite and at most 10 in
\* absolute value does not raise the flag.
C7_Detection1D ==
    /\ []((state1d.nSteps > 0 /\ OverThreshold(state1d.u))
             => state1d.hasDiverged)
    /\ [][(IsTimeStep /\ running.fn = "1d" /\ ~state1d.hasDiverged
             /\ ~OverThreshold(state1d'.u)) => ~state1d'.hasDiverged]_vars

\* a step has left the largest magnitude at exactly the threshold, and the
\* flag is down
C7_Witness ==
    /\ state1d.nSteps = 1
    /\ MaxAbs(state1d.u, 0, ALen(state1d.u) - 1) = Int2Num(DivergedThreshold)
    /\ ~state1d.hasDiverged

\* C8: in both 2D drivers, once a step has been taken, a centre entry
\* u[Nx \div 2][Nx \div 2] over 10 in absolute value or not finite has the
\* flag of the 2D state up.
C8_Detection2D ==
    (/\ state2d.nSteps > 0
     /\ ALen(state2d.u) = config.Nx
     /\ Exceeds2D(config, state2d)) => state2d.hasDiverged

\* the loop of animate is at its Tmax test with t >= Tmax
ObservesTmax ==
    /\ running # idle
    /\ running.i < config.animationSpeed
    /\ Completed(config, Run)

\* C9: no step is taken from a state with t >= Tmax, also in the middle of
\* a tick; the driver that finds t >= Tmax sets isPlaying to false, takes
\* no step and schedules no further frame (so that Play at t >= Tmax
\* executes zero steps).
C9_Completion ==
    [][/\ IsTimeStep => ~Completed(config, Run)
       /\ ObservesTmax =>
             /\ running' = idle
             /\ ~RunNext.isPlaying
             /\ RunNext.nSteps = Run.nSteps
             /\ frames' \subseteq frames]_vars

\* what a run computes: the fields, the time, the counters, the flag
Numerics(st) == <<st.u, st.uExact, st.t, st.nSteps, st.flops, st.hasDiverged>>

MaxN == 3

\* the entries of the systems: diagonals, off-diagonals, right-hand sides
BValues == {Zero, One, Int2Num(2)}
ACValues == {Zero, One}
DValues == {One, Int2Num(3)}

\* the entries of the fields and the diffusion numbers that the steppers
\* are called with
UValues == {Int2Num(-2), Int2Num(-1), Zero, One, Int2Num(2)}
RValues == {Int2Num(-1), <<-1, 2>>, Zero, <<1, 4>>, <<1, 2>>, One}

\* the values on the ends of a 1D field and on the border of a 2D field
EndValues == {Zero, One}

\* the fields of n points: any interior, ends that need not be zero
Fields1D(n) ==
    {u \in [0..(n - 1) -> UValues] : u[0] \in EndValues /\ u[n - 1] \in EndValues}

\* the largest side of a 2D field
MaxSide == 4

\* the nx-by-ny field with bi on the rows i = 0 and i = nx-1, bj on the rest
\* of the border, v at (1,1) and w at the other interior points
Field2D(nx, ny, v, w, bi, bj) ==
    [i \in 0..(nx - 1) |-> [j \in 0..(ny - 1) |->
        IF i = 0 \/ i = nx - 1 THEN bi
        ELSE IF j = 0 \/ j = ny - 1 THEN bj
        ELSE IF i = 1 /\ j = 1 THEN v
        ELSE w]]

Fields2D ==
    {Field2D(nx, ny, v, w, bi, bj) :
        nx \in 3..MaxSide, ny \in 3..MaxSide, v \in UValues,
        w \in EndValues, bi \in EndValues, bj \in EndValues}

Steppers1D == {"forwardEuler", "backwardEuler", "crankNicolson",
               "forwardEuler1D", "backwardEuler1D", "crankNicolson1D"}
Steppers2D == {"forwardEuler2D", "backwardEulerADI", "crankNicolsonADI",
               "backwardEuler2D_ADI", "crankNicolson2D_ADI"}

\* the stepper fn applied to its arguments
Apply1D(fn, u, r) ==
    CASE fn = "forwardEuler"    -> forwardEuler(u, r)
      [] fn = "backwardEuler"   -> backwardEuler(u, r)
      [] fn = "crankNicolson"   -> crankNicolson(u, r)
      [] fn = "forwardEuler1D"  -> forwardEuler1D(u, r)
      [] fn = "backwardEuler1D" -> backwardEuler1D(u, r)
      [] OTHER                  -> crankNicolson1D(u, r)

Apply2D(fn, u, rx, ry) ==
    CASE fn = "forwardEuler2D"      -> forwardEuler2D(u, rx, ry)
      [] fn = "backwardEulerADI"    -> backwardEulerADI(u, rx, ry)
      [] fn = "crankNicolsonADI"    -> crankNicolsonADI(u, rx, ry)
      [] fn = "backwardEuler2D_ADI" -> backwardEuler2D_ADI(u, rx, ry)
      [] OTHER                      -> crankNicolson2D_ADI(u, rx, ry)

\* the side of the fields that are antisymmetric about the middle x-index
AntiSide == 5

\* the n-by-n field with u[n-1-i][j] = -u[i][j]: in the rows i < n / 2 it
\* has b on the row i = 0, 0 on the rest of the border, p at j = 1 and q at
\* the other interior points; the middle row of an odd n is 0
AntiField(n, p, q, b) ==
    LET half(i, j) == IF i = 0 THEN b
                      ELSE IF j = 0 \/ j = n - 1 THEN Zero
                      ELSE IF j = 1 THEN p ELSE q
    IN  [i \in 0..(n - 1) |-> [j \in 0..(n - 1) |->
            IF 2 * i < n - 1 THEN half(i, j)
            ELSE IF 2 * i > n - 1 THEN Neg(half(n - 1 - i, j))
            ELSE Zero]]

AntiValues == {Int2Num(-4), Int2Num(-1), Zero, One, Int2Num(4)}

AntiFields ==
    {AntiField(AntiSide, p, q, b) :
        p \in AntiValues, q \in AntiValues, b \in EndValues}

\* the square fields that the error display is computed from
ErrorFields(n) ==
    {Field2D(n, n, v, w, bi, bj) :
        v \in UValues, w \in EndValues, bi \in EndValues, bj \in EndValues}

\* floor(d / 10^e) for d >= 0, without forming 10^e
RECURSIVE FloorDivPow10(_, _)
FloorDivPow10(d, e) == IF e = 0 THEN d ELSE FloorDivPow10(d \div 10, e - 1)

\* v > 1e-e for v >= 0
GtPow10(v, e) ==
    /\ ~IsNaN(v)
    /\ v = PInf \/ (isFinite(v) /\ v[1] > FloorDivPow10(v[2], e))

\* the exponents of the thresholds 1e-9 (app.js) and 1e-10 (part_001)
MaxUExactEpsExp == 9
UExactEpsExp == 10

\* the largest of 0 and the numbers of S ("if (v > max) max = v" from 0)
MaxFrom0(S) ==
    CHOOSE m \in S \cup {Zero} : \A v \in S \cup {Zero} : ~Lt(m, v)

Points(u) == {<<i, j>> : i \in DOMAIN u, j \in DOMAIN u[0]}

\* Math.abs(u[i][j] - uExact[i][j])
ErrAt(u, uExact, p) == Abs(Sub(u[p[1]][p[2]], uExact[p[1]][p[2]]))

\* maxError / maxErr of both pages: the largest finite error
maxError(u, uExact) ==
    MaxFrom0({ErrAt(u, uExact, p) :
                p \in {q \in Points(u) : isFinite(ErrAt(u, uExact, q))}})

\* maxUExact of updateStatus: the largest finite |uExact[i][j]|
maxUExact(uExact) ==
    MaxFrom0({Abs(uExact[p[1]][p[2]]) :
                p \in {q \in Points(uExact) : isFinite(uExact[q[1]][q[2]])}})

\* l2Error * l2Error = sumSqError / count
l2ErrorSquared(u, uExact) ==
    LET P == Points(u)
        sq(p) == Mul(ErrAt(u, uExact, p), ErrAt(u, uExact, p))
        RECURSIVE Sum(_)
        Sum(S) == IF S = {} THEN Zero
                  ELSE LET p == CHOOSE q \in S : TRUE
                       IN  Add(IF isFinite(ErrAt(u, uExact, p)) THEN sq(p) ELSE Zero,
                               Sum(S \ {p}))
    IN  Div(Sum(P), Int2Num(Cardinality(P)))

\* v.toFixed(2) for a finite v >= 0, as a count of hundredths: the nearest
\* one, the larger of two equally near
toFixed2(v) == (200 * v[1] + v[2]) \div (2 * v[2])

\* updateStatus of the standalone 2D page: the text of max-rel-error-display
maxRelError(u, uExact) ==
    IF GtPow10(maxUExact(uExact), MaxUExactEpsExp)
    THEN Mul(Div(maxError(u, uExact), maxUExact(uExact)), Int2Num(100))
    ELSE Zero

updateStatus(u, uExact) ==
    IF Gt(l2ErrorSquared(u, uExact), Int2Num(100))
       \/ ~isFinite(l2ErrorSquared(u, uExact))
    THEN "DIVERGED!"
    ELSE toFixed2(maxRelError(u, uExact))

\* updateStatus2D of the unified page: the largest of the relative errors
\* of the points with a finite error and |uExact[i][j]| > 1e-10
maxRelErr(u, uExact) ==
    MaxFrom0({Div(Mul(Int2Num(100), ErrAt(u, uExact, p)),
                  Abs(uExact[p[1]][p[2]])) :
                p \in {q \in Points(u) :
                         /\ isFinite(ErrAt(u, uExact, q))
                         /\ GtPow10(Abs(uExact[q[1]][q[2]]), UExactEpsExp)}})

updateStatus2D(u, uExact) == toFixed2(maxRelErr(u, uExact))

StatusDisplays == {"updateStatus", "updateStatus2D"}

InitFn ==
    /\ impl = "app1d"
    /\ currentDimension = Dimension0(impl)
    /\ config = config0
    /\ state1d = State1d0(impl)
    /\ state2d = State2d0(impl)
    /\ frames = {}
    /\ running = idle
    /\ \/ \E n \in 1..MaxN :
             \E a \in [0..(n - 1) -> ACValues], b \in [0..(n - 1) -> BValues],
                c \in [0..(n - 1) -> ACValues], d \in [0..(n - 1) -> DValues] :
                call = [fn |-> "thomasAlgorithm", args |-> <<a, b, c, d>>,
                        done |-> FALSE, ret |-> nullArray]
       \/ \E n \in 3..(MaxN + 2) :
             \E fn \in Steppers1D, u \in Fields1D(n), r \in RValues :
                call = [fn |-> fn, args |-> <<u, r>>,
                        done |-> FALSE, ret |-> nullArray]
       \/ \E fn \in Steppers2D, u \in Fields2D, rx \in RValues, ry \in RValues :
             call = [fn |-> fn, args |-> <<u, rx, ry>>,
                     done |-> FALSE, ret |-> nullArray]
       \/ \E u \in AntiFields, r \in RValues :
             call = [fn |-> "forwardEuler2D", args |-> <<u, r, r>>,
                     done |-> FALSE, ret |-> nullArray]
       \/ \E fn \in StatusDisplays, n \in 3..MaxSide :
             \E u \in ErrorFields(n), uExact \in ErrorFields(n) :
                call = [fn |-> fn, args |-> <<u, uExact>>,
                        done |-> FALSE, ret |-> nullArray]

\* x = thomasAlgorithm(a, b, c, d): the arrays a, b, c, d are read only
ThomasCall ==
    /\ call.fn = "thomasAlgorithm"
    /\ ~call.done
    /\ call' = [call EXCEPT
                  !.ret = thomasAlgorithm(call.args[1], call.args[2],
                                          call.args[3], call.args[4]),
                  !.done = TRUE]
    /\ UNCHANGED <<impl, currentDimension, config, state1d, state2d,
                   frames, running>>

\* uNew = fn(u, r) for a 1D stepper of the standalone or the unified page:
\* each allocates its result and the arrays it hands to the solver, u is
\* read only
Stepper1DCall ==
    /\ call.fn \in Steppers1D
    /\ ~call.done
    /\ call' = [call EXCEPT
                  !.ret = Apply1D(call.fn, call.args[1], call.args[2]),
                  !.done = TRUE]
    /\ UNCHANGED <<impl, currentDimension, config, state1d, state2d,
                   frames, running>>

\* uNew = fn(u, rx, ry) for a 2D stepper of the standalone or the unified
\* page: each allocates uStar/uHalf and uNew, u is read only
Stepper2DCall ==
    /\ call.fn \in Steppers2D
    /\ ~call.done
    /\ call' = [call EXCEPT
                  !.ret = Apply2D(call.fn, call.args[1], call.args[2],
                                  call.args[3]),
                  !.done = TRUE]
    /\ UNCHANGED <<impl, currentDimension, config, state1d, state2d,
                   frames, running>>

\* the error display of a 2D page computed from the fields u and uExact
StatusCall ==
    /\ call.fn \in StatusDisplays
    /\ ~call.done
    /\ call' = [call EXCEPT
                  !.ret = IF call.fn = "updateStatus"
                          THEN updateStatus(call.args[1], call.args[2])
                          ELSE updateStatus2D(call.args[1], call.args[2]),
                  !.done = TRUE]
    /\ UNCHANGED <<impl, currentDimension, config, state1d, state2d,
                   frames, running>>

NextFn ==
    \/ ThomasCall
    \/ Stepper1DCall
    \/ Stepper2DCall
    \/ StatusCall

SpecFn == InitFn /\ [][NextFn]_vars

\* ------------------------------------------------------------------------
\* Properties of the interleavings, the solver, the steppers and the cost
\* ------------------------------------------------------------------------

\* the grid and the fields of a state of dimension dim have Nx points (in
\* each direction in 2D)
ShapeIs(dim, Nx, st) ==
    /\ ALen(st.x) = Nx
    /\ ALen(st.u) = Nx
    /\ ALen(st.uExact) = Nx
    /\ dim = "2d" =>
          /\ ALen(st.y) = Nx
          /\ \A i \in DOMAIN st.u :
                ALen(st.u[i]) = Nx /\ ALen(st.uExact[i]) = Nx

\* C11: whatever the interleaving of the controls with the animation
\* frames, an animate call (its time steps and its chart updates) works on
\* a state whose grid x, field u and field uExact have the configured Nx
\* points.
C11_ShapeConsistency ==
    running # idle => ShapeIs(running.fn, config.Nx, Run)

\* alpha * dt / dx^2 for dx = L / (n - 1)
DiffusionNumber(dt, n) ==
    Div(Mul(alpha, dt),
        Mul(Div(L, Int2Num(n - 1)), Div(L, Int2Num(n - 1))))

\* the diffusion number(s) that the state holds are those of cfg.dt on the
\* state's own grid
DiffusionNumberIs(dim, cfg, st) ==
    IF dim = "1d"
    THEN st.r = DiffusionNumber(cfg.dt, ALen(st.x))
    ELSE /\ st.rx = DiffusionNumber(cfg.dt, ALen(st.x))
         /\ st.ry = DiffusionNumber(cfg.dt, ALen(st.y))

\* C12: whatever the interleaving of the controls with the animation
\* frames, every time step runs the stepper with the diffusion number
\* alpha * dt / dx^2 of the dt by which it advances t and of the dx of the
\* current grid.
C12_DiffusionNumberFresh ==
    [][IsTimeStep => DiffusionNumberIs(running.fn, config, Run)]_vars

\* a known method, at least one interior point, a positive number for dt
ValidConfig(cfg) ==
    /\ cfg.method \in Methods
    /\ cfg.Nx >= 3
    /\ isFinite(cfg.dt)
    /\ Gt(cfg.dt, Zero)

\* C13: no time step is executed while the configuration is invalid (an
\* unknown method, Nx < 3, dt <= 0 or dt not a number): such a configuration
\* is rejected when it is set or at reset.
C13_InvalidConfigNeverSteps ==
    [][IsTimeStep => ValidConfig(config)]_vars

\* the effective pivot of row i: b_0, and b_i - a_i * c_{i-1} / pivot_{i-1}
RECURSIVE EffPivot(_, _, _, _)
EffPivot(a, b, c, i) ==
    IF i = 0 THEN b[0]
    ELSE Sub(b[i], Mul(a[i], Div(c[i - 1], EffPivot(a, b, c, i - 1))))

\* row i is the first row whose effective pivot is below 1e-15 in magnitude
FirstTinyPivot(a, b, c, i) ==
    /\ AbsLtPivotEps(EffPivot(a, b, c, i))
    /\ \A j \in 0..(i - 1) : ~AbsLtPivotEps(EffPivot(a, b, c, j))

DegeneratePivot(a, b, c) ==
    \E i \in DOMAIN b : FirstTinyPivot(a, b, c, i)

\* a call of fn returns in this step
Returns(fn) == call.fn = fn /\ ~call.done /\ call'.done

\* C14: when |b_0| or an effective pivot |b_i - a_i cp_{i-1}| is below 1e-15,
\* thomasAlgorithm returns the right-hand side d with every entry as the
\* caller gave it; in every case a, b, c, d are as they were before the call.
C14_ZeroPivotSafety ==
    [][Returns("thomasAlgorithm") =>
          /\ call'.args = call.args
          /\ DegeneratePivot(call.args[1], call.args[2], call.args[3])
                => call'.ret = call.args[4]]_vars

\* a call has returned d because the pivot of a row after the first was 0
C14_Witness ==
    /\ call.fn = "thomasAlgorithm"
    /\ call.done
    /\ ALen(call.args[4]) = 3
    /\ FirstTinyPivot(call.args[1], call.args[2], call.args[3], 2)
    /\ call.ret = call.args[4]

\* the solver fails on the n-row system of an implicit stepper: diagonal
\* 1 + 2r and off-diagonals -r (backward Euler), 1 + r and -r/2
\* (Crank-Nicolson), with the boundary rows
SolverFails(fn, n, r) ==
    LET h == IF fn \in {"backwardEuler", "backwardEulerADI"}
             THEN r ELSE Div(r, Int2Num(2))
    IN  DegeneratePivot(BoundaryA(Fill(n, Neg(h))),
                        BoundaryB(Fill(n, Add(One, Mul(Int2Num(2), h)))),
                        BoundaryC(Fill(n, Neg(h))))

ImplicitSteppers ==
    {"backwardEuler", "crankNicolson", "backwardEulerADI", "crankNicolsonADI"}

RowSum(a, b, c, x, i) ==
    Add(Add(IF i = 0 THEN Zero ELSE Mul(a[i], x[i - 1]),
            Mul(b[i], x[i])),
        IF i = ALen(x) - 1 THEN Zero ELSE Mul(c[i], x[i + 1]))

Solves(a, b, c, d, x) ==
    /\ DOMAIN x = DOMAIN d
    /\ \A i \in DOMAIN d : RowSum(a, b, c, x, i) = d[i]

\* C16: for a, b, c, d of length n >= 1 with no degenerate pivot,
\* thomasAlgorithm returns x of length n with
\* a_i x_{i-1} + b_i x_i + c_i x_{i+1} = d_i in every row; with a = 0, c = 0
\* and b = 1 throughout it returns d.
C16_ThomasSolves ==
    [][(Returns("thomasAlgorithm")
          /\ ~DegeneratePivot(call.args[1], call.args[2], call.args[3])) =>
          /\ Solves(call.args[1], call.args[2], call.args[3], call.args[4],
                    call'.ret)
          /\ (/\ \A i \in DOMAIN call.args[2] :
                    /\ call.args[1][i] = Zero
                    /\ call.args[2][i] = One
                    /\ call.args[3][i] = Zero)
                => call'.ret = call.args[4]]_vars

\* a system of three coupled rows has been solved
C16_Witness ==
    /\ call.fn = "thomasAlgorithm"
    /\ call.done
    /\ ALen(call.args[4]) = 3
    /\ \A i \in 0..2 : call.args[1][i] = One /\ call.args[3][i] = One
    /\ ~DegeneratePivot(call.args[1], call.args[2], call.args[3])
    /\ call.ret # call.args[4]
    /\ Solves(call.args[1], call.args[2], call.args[3], call.args[4], call.ret)

CostPerPoint(dim, method) ==
    CASE method = "forward-euler" -> IF dim = "1d" THEN {5} ELSE {9, 10}
      [] method = "backward-euler" -> IF dim = "1d" THEN {8} ELSE {16}
      [] OTHER -> IF dim = "1d" THEN {12} ELSE {24}

\* the number of points of the configured grid
PointCount(dim, cfg) == IF dim = "1d" THEN cfg.Nx ELSE cfg.Nx * cfg.Nx

\* C18: on every page the cost estimate grows at each step by a constant of
\* the method times the number of grid points: 5 N, 8 N, 12 N in 1D and
\* c N^2 with c = 9 or 10, 16, 24 in 2D.
C18_CostScaling ==
    [][IsTimeStep =>
          \E c \in CostPerPoint(running.fn, config.method) :
             RunNext.flops - Run.flops = c * PointCount(running.fn, config)]_vars

\* the explicit method's stability limit: 0 <= r <= 1/2
StableR(r) == ~Lt(r, Zero) /\ ~Gt(r, <<1, 2>>) /\ isFinite(r)

\* Math.max(...u.map(Math.abs)) of a whole field
MaxAbsOf(u) == MaxAbs(u, 0, ALen(u) - 1)

\* C19: for 0 <= r <= 1/2 and zero boundaries the largest magnitude of the
\* field does not grow across a step of the explicit 1D method, so that a
\* field within the divergence threshold stays within it and the divergence
\* check of animate does not fire on the result (by induction from reset,
\* where max|u| <= 1, the flag is still false after any number of steps).
C19_StableExplicitRegime ==
    [][(Returns("forwardEuler") /\ StableR(call.args[2])) =>
          /\ ~Gt(MaxAbsOf(call'.ret), MaxAbsOf(call.args[1]))
          /\ ~Exceeds1D(call.args[1]) => ~Exceeds1D(call'.ret)]_vars

\* a step at the limit r = 1/2 that changes a five-point field and keeps its
\* largest magnitude
C19_Witness ==
    /\ call.fn = "forwardEuler"
    /\ call.done
    /\ call.args[2] = <<1, 2>>
    /\ ALen(call.args[1]) = 5
    /\ call.ret # call.args[1]
    /\ MaxAbsOf(call.ret) = Int2Num(2)
    /\ MaxAbsOf(call.args[1]) = Int2Num(2)

\* ------------------------------------------------------------------------
\* The standalone 1D page in double precision
\* ------------------------------------------------------------------------
\* The runs at Nx = 41 are followed in the arithmetic of the page itself:
\* IEEE-754 binary64 with round-to-nearest-even, s * m * 2^e with a mantissa
\* m of 53 bits held in limbs.  The values of these runs stay in the normal
\* range, so that subnormals, infinities and NaN are not represented.

\* natural numbers of any size: limbs of LimbBits bits, least first, no
\* zero limb at the top; <<>> is 0
LimbBits == 15
LimbBase == 32768

RECURSIVE Pow2(_)
Pow2(n) == IF n = 0 THEN 1 ELSE 2 * Pow2(n - 1)

RECURSIVE BTrim(_)
BTrim(a) ==
    IF a = <<>> THEN a
    ELSE IF a[Len(a)] = 0 THEN BTrim(SubSeq(a, 1, Len(a) - 1)) ELSE a

BLimb(a, i) == IF i <= Len(a) THEN a[i] ELSE 0

RECURSIVE BAddFrom(_, _, _, _)
BAddFrom(a, b, i, carry) ==
    IF i > Len(a) /\ i > Len(b)
    THEN IF carry = 0 THEN <<>> ELSE <<carry>>
    ELSE <<(BLimb(a, i) + BLimb(b, i) + carry) % LimbBase>>
         \o BAddFrom(a, b, i + 1, (BLimb(a, i) + BLimb(b, i) + carry) \div LimbBase)

BAdd(a, b) == BAddFrom(a, b, 1, 0)

\* a - b for a >= b
RECURSIVE BSubFrom(_, _, _, _)
BSubFrom(a, b, i, borrow) ==
    IF i > Len(a) THEN <<>>
    ELSE IF a[i] - BLimb(b, i) - borrow < 0
         THEN <<a[i] - BLimb(b, i) - borrow + LimbBase>> \o BSubFrom(a, b, i + 1, 1)
         ELSE <<a[i] - BLimb(b, i) - borrow>> \o BSubFrom(a, b, i + 1, 0)

BSub(a, b) == BTrim(BSubFrom(a, b, 1, 0))

\* -1, 0, 1 as a < b, a = b, a > b, comparing the limbs from i down
RECURSIVE BCmpFrom(_, _, _)
BCmpFrom(a, b, i) ==
    IF i = 0 THEN 0
    ELSE IF a[i] < b[i] THEN -1
    ELSE IF a[i] > b[i] THEN 1
    ELSE BCmpFrom(a, b, i - 1)

BCmp(a, b) ==
    IF Len(a) < Len(b) THEN -1
    ELSE IF Len(a) > Len(b) THEN 1
    ELSE BCmpFrom(a, b, Len(a))

\* a * m for one limb m
RECURSIVE BMulLimbFrom(_, _, _, _)
BMulLimbFrom(a, m, i, carry) ==
    IF i > Len(a) THEN IF carry = 0 THEN <<>> ELSE <<carry>>
    ELSE <<(a[i] * m + carry) % LimbBase>>
         \o BMulLimbFrom(a, m, i + 1, (a[i] * m + carry) \div LimbBase)

BMulLimb(a, m) == IF m = 0 THEN <<>> ELSE BMulLimbFrom(a, m, 1, 0)

BShiftLimbs(a, q) == IF a = <<>> THEN a ELSE [i \in 1..q |-> 0] \o a

RECURSIVE BMulFrom(_, _, _)
BMulFrom(a, b, i) ==
    IF i > Len(b) THEN <<>>
    ELSE BAdd(BShiftLimbs(BMulLimb(a, b[i]), i - 1), BMulFrom(a, b, i + 1))

BMul(a, b) == BMulFrom(a, b, 1)

\* a * 2^n
BShl(a, n) == BShiftLimbs(BMulLimb(a, Pow2(n % LimbBits)), n \div LimbBits)

\* floor(a / 2^n)
BShr(a, n) ==
    LET q == n \div LimbBits
        r == n % LimbBits
    IN  IF q >= Len(a) THEN <<>>
        ELSE BTrim([i \in 1..(Len(a) - q) |->
                      (a[i + q] \div Pow2(r))
                      + (BLimb(a, i + q + 1) % Pow2(r)) * Pow2(LimbBits - r)])

RECURSIVE IntBits(_)
IntBits(v) == IF v = 0 THEN 0 ELSE 1 + IntBits(v \div 2)

BitLen(a) ==
    IF a = <<>> THEN 0 ELSE LimbBits * (Len(a) - 1) + IntBits(a[Len(a)])

\* bit j of a, bit 0 the lowest
BBit(a, j) == (BLimb(a, j \div LimbBits + 1) \div Pow2(j % LimbBits)) % 2

\* the bits of a below bit n are all zero
BLowZero(a, n) ==
    /\ \A i \in 1..(n \div LimbBits) : BLimb(a, i) = 0
    /\ BLimb(a, n \div LimbBits + 1) % Pow2(n % LimbBits) = 0

\* the natural number v < LimbBase * LimbBase
BNat(v) ==
    IF v = 0 THEN <<>>
    ELSE IF v < LimbBase THEN <<v>>
    ELSE <<v % LimbBase, v \div LimbBase>>

\* a double: s * m * 2^e with s in {-1, 0, 1} and m of exactly Precision
\* bits
Precision == 53

F64Zero == [s |-> 0, m |-> <<>>, e |-> 0]

\* round-to-nearest-even of s * M * 2^e
F64RoundCarry(s, q, e) ==
    IF BitLen(q) > Precision THEN [s |-> s, m |-> BShr(q, 1), e |-> e + 1]
    ELSE [s |-> s, m |-> q, e |-> e]

F64RoundCut(s, M, e, n) ==
    IF BBit(M, n - 1) = 1 /\ (~BLowZero(M, n - 1) \/ BBit(M, n) = 1)
    THEN F64RoundCarry(s, BAdd(BShr(M, n), <<1>>), e + n)
    ELSE [s |-> s, m |-> BShr(M, n), e |-> e + n]

F64RoundLen(s, M, e, len) ==
    IF len = 0 THEN F64Zero
    ELSE IF len <= Precision
         THEN [s |-> s, m |-> BShl(M, Precision - len), e |-> e - (Precision - len)]
         ELSE F64RoundCut(s, M, e, len - Precision)

F64Round(s, M, e) == F64RoundLen(s, M, e, BitLen(M))

F64Neg(a) == [a EXCEPT !.s = -a.s]
F64Abs(a) == [a EXCEPT !.s = a.s * a.s]

F64Mul(a, b) ==
    IF a.s = 0 \/ b.s = 0 THEN F64Zero
    ELSE F64Round(a.s * b.s, BMul(a.m, b.m), a.e + b.e)

\* a + b for a.e >= b.e, neither zero, the mantissa of a shifted to b's
\* exponent
F64AddShifted(a, A, b) ==
    IF a.s = b.s THEN F64Round(a.s, BAdd(A, b.m), b.e)
    ELSE IF BCmp(A, b.m) >= 0 THEN F64Round(a.s, BSub(A, b.m), b.e)
    ELSE F64Round(b.s, BSub(b.m, A), b.e)

F64AddOrdered(a, b) ==
    IF a.e - b.e > Precision + 2 THEN a
    ELSE F64AddShifted(a, BShl(a.m, a.e - b.e), b)

F64Add(a, b) ==
    IF a.s = 0 THEN b
    ELSE IF b.s = 0 THEN a
    ELSE IF a.e >= b.e THEN F64AddOrdered(a, b) ELSE F64AddOrdered(b, a)

F64Sub(a, b) == F64Add(a, F64Neg(b))

\* the long division of N by D, bit i of N down to bit lo: the quotient
\* and the remainder so far are Q and R (Len(Q) has Q evaluated at every
\* bit, which keeps the evaluation shallow)
RECURSIVE BDivBits(_, _, _, _, _, _)
BDivBits(N, D, i, lo, Q, R) ==
    IF i < lo THEN <<Q, R>>
    ELSE IF Len(Q) >= 0 /\ BCmp(BAdd(BShl(R, 1), BNat(BBit(N, i))), D) >= 0
         THEN BDivBits(N, D, i - 1, lo, BAdd(BShl(Q, 1), <<1>>),
                       BSub(BAdd(BShl(R, 1), BNat(BBit(N, i))), D))
         ELSE BDivBits(N, D, i - 1, lo, BShl(Q, 1),
                       BAdd(BShl(R, 1), BNat(BBit(N, i))))

\* the same, LimbBits bits at a time
RECURSIVE BDivFrom(_, _, _, _)
BDivFrom(N, D, i, qr) ==
    IF i < 0 THEN qr
    ELSE IF Len(qr[1]) + Len(qr[2]) >= 0
         THEN BDivFrom(N, D, i - LimbBits,
                       BDivBits(N, D, i, IF i < LimbBits THEN 0 ELSE i - LimbBits + 1,
                                qr[1], qr[2]))
         ELSE qr

BDiv(N, D) == BDivFrom(N, D, BitLen(N) - 1, <<<<>>, <<>>>>)

\* the quotient bits followed by one bit that says the division left a rest
F64DivRound(s, qr, e) ==
    F64Round(s, BAdd(BShl(qr[1], 1), IF qr[2] = <<>> THEN <<>> ELSE <<1>>), e - 1)

F64Div(a, b) ==
    IF a.s = 0 THEN F64Zero
    ELSE F64DivRound(a.s * b.s, BDiv(BShl(a.m, Precision + 2), b.m),
                   a.e - b.e - (Precision + 2))

\* the double of an integer below LimbBase * LimbBase
F64Int(v) ==
    IF v = 0 THEN F64Zero
    ELSE IF v < 0 THEN F64Round(-1, BNat(-v), 0) ELSE F64Round(1, BNat(v), 0)

\* a < b for positive a and b
F64LtPos(a, b) ==
    a.e < b.e \/ (a.e = b.e /\ BCmp(a.m, b.m) < 0)

F64Lt(a, b) ==
    IF a.s < b.s THEN TRUE
    ELSE IF a.s > b.s THEN FALSE
    ELSE IF a.s = 0 THEN FALSE
    ELSE IF a.s = 1 THEN F64LtPos(a, b)
    ELSE F64LtPos(F64Abs(b), F64Abs(a))

\* Math.PI
Math_PI == [s |-> 1, m |-> <<11544, 10376, 2029, 201>>, e |-> -51]

\* Math.sin at the arguments k * Math.PI * x[i] / L of the 41-point grid,
\* correctly rounded
SinTable ==
    {[arg |-> [s |-> 0, m |-> <<>>, e |-> 0],
      val |-> [s |-> 0, m |-> <<>>, e |-> 0]],
     [arg |-> [s |-> 1, m |-> <<26960, 25558, 8988, 241>>, e |-> -55],
      val |-> [s |-> 1, m |-> <<31691, 19241, 1574, 239>>, e |-> -55]],
     [arg |-> [s |-> 1, m |-> <<26960, 25558, 8988, 241>>, e |-> -54],
      val |-> [s |-> 1, m |-> <<24064, 22153, 14520, 232>>, e |-> -54]],
     [arg |-> [s |-> 1, m |-> <<3837, 19169, 31317, 180>>, e |-> -53],
      val |-> [s |-> 1, m |-> <<28399, 3073, 8477, 166>>, e |-> -53]],
     [arg |-> [s |-> 1, m |-> <<26960, 25558, 8988, 241>>, e |-> -53],
      val |-> [s |-> 1, m |-> <<29864, 14127, 3550, 207>>, e |-> -53]],
     [arg |-> [s |-> 1, m |-> <<8658, 32358, 26097, 150>>, e |-> -52],
      val |-> [s |-> 1, m |-> <<3398, 7781, 16815, 236>>, e |-> -53]],
     [arg |-> [s |-> 1, m |-> <<3837, 19169, 31317, 180>>, e |-> -52],
      val |-> [s |-> 1, m |-> <<25692, 10335, 27794, 252>>, e |-> -53]],
     [arg |-> [s |-> 1, m |-> <<31783, 5979, 3769, 211>>, e |-> -52],
      val |-> [s |-> 1, m |-> <<24751, 23628, 6908, 255>>, e |-> -53]],
     [arg |-> [s |-> 1, m |-> <<26960, 25558, 8988, 241>>, e |-> -52],
      val |-> [s |-> 1, m |-> <<21760, 9864, 15416, 243>>, e |-> -53]],
     [arg |-> [s |-> 1, m |-> <<27453, 6184, 23488, 135>>, e |-> -51],
      val |-> [s |-> 1, m |-> <<1345, 3402, 9040, 218>>, e |-> -53]],
     [arg |-> [s |-> 1, m |-> <<8658, 32358, 26097, 150>>, e |-> -51],
      val |-> [s |-> 1, m |-> <<15309, 19710, 633, 181>>, e |-> -53]],
     [arg |-> [s |-> 1, m |-> <<22631, 25763, 28707, 165>>, e |-> -51],
      val |-> [s |-> 1, m |-> <<11933, 20970, 24891, 133>>, e |-> -53]],
     [arg |-> [s |-> 1, m |-> <<3837, 19169, 31317, 180>>, e |-> -51],
      val |-> [s |-> 1, m |-> <<26954, 28255, 7100, 158>>, e |-> -54]],
     [arg |-> [s |-> 1, m |-> <<17809, 12574, 1159, 196>>, e |-> -51],
      val |-> [s |-> 1, m |-> <<3666, 25715, 22420, 160>>, e |-> -56]],
     [arg |-> [s |-> 1, m |-> <<31783, 5979, 3769, 211>>, e |-> -51],
      val |-> [s |-> -1, m |-> <<21376, 20304, 6189, 160>>, e |-> -55]],
     [arg |-> [s |-> 1, m |-> <<12987, 32153, 6378, 226>>, e |-> -51],
      val |-> [s |-> -1, m |-> <<10593, 19805, 30602, 195>>, e |-> -54]],
     [arg |-> [s |-> 1, m |-> <<26960, 25558, 8988, 241>>, e |-> -51],
      val |-> [s |-> -1, m |-> <<23133, 2282, 15500, 150>>, e |-> -53]],
     [arg |-> [s |-> 1, m |-> <<4083, 9482, 5799, 128>>, e |-> -50],
      val |-> [s |-> -1, m |-> <<28437, 18555, 21755, 194>>, e |-> -53]],
     [arg |-> [s |-> 1, m |-> <<27453, 6184, 23488, 135>>, e |-> -50],
      val |-> [s |-> -1, m |-> <<11372, 14970, 3200, 228>>, e |-> -53]],
     [arg |-> [s |-> 1, m |-> <<18056, 2887, 8409, 143>>, e |-> -50],
      val |-> [s |-> -1, m |-> <<7119, 3054, 30366, 248>>, e |-> -53]],
     [arg |-> [s |-> 1, m |-> <<8658, 32358, 26097, 150>>, e |-> -50],
      val |-> [s |-> -1, m |-> <<0, 0, 0, 128>>, e |-> -52]],
     [arg |-> [s |-> 1, m |-> <<32029, 29060, 11018, 158>>, e |-> -50],
      val |-> [s |-> -1, m |-> <<7118, 3054, 30366, 248>>, e |-> -53]],
     [arg |-> [s |-> 1, m |-> <<22631, 25763, 28707, 165>>, e |-> -50],
      val |-> [s |-> -1, m |-> <<11373, 14970, 3200, 228>>, e |-> -53]],
     [arg |-> [s |-> 1, m |-> <<13234, 22466, 13628, 173>>, e |-> -50],
      val |-> [s |-> -1, m |-> <<28434, 18555, 21755, 194>>, e |-> -53]],
     [arg |-> [s |-> 1, m |-> <<3837, 19169, 31317, 180>>, e |-> -50],
      val |-> [s |-> -1, m |-> <<23129, 2282, 15500, 150>>, e |-> -53]],
     [arg |-> [s |-> 1, m |-> <<27206, 15871, 16238, 188>>, e |-> -50],
      val |-> [s |-> -1, m |-> <<10606, 19805, 30602, 195>>, e |-> -54]],
     [arg |-> [s |-> 1, m |-> <<17809, 12574, 1159, 196>>, e |-> -50],
      val |-> [s |-> -1, m |-> <<21373, 20304, 6189, 160>>, e |-> -55]],
     [arg |-> [s |-> 1, m |-> <<8412, 9277, 18848, 203>>, e |-> -50],
      val |-> [s |-> 1, m |-> <<3671, 25715, 22420, 160>>, e |-> -56]],
     [arg |-> [s |-> 1, m |-> <<31783, 5979, 3769, 211>>, e |-> -50],
      val |-> [s |-> 1, m |-> <<26970, 28255, 7100, 158>>, e |-> -54]],
     [arg |-> [s |-> 1, m |-> <<22385, 2682, 21458, 218>>, e |-> -50],
      val |-> [s |-> 1, m |-> <<11934, 20970, 24891, 133>>, e |-> -53]],
     [arg |-> [s |-> 1, m |-> <<12987, 32153, 6378, 226>>, e |-> -50],
      val |-> [s |-> 1, m |-> <<15307, 19710, 633, 181>>, e |-> -53]],
     [arg |-> [s |-> 1, m |-> <<3590, 28856, 24067, 233>>, e |-> -50],
      val |-> [s |-> 1, m |-> <<1345, 3402, 9040, 218>>, e |-> -53]],
     [arg |-> [s |-> 1, m |-> <<26960, 25558, 8988, 241>>, e |-> -50],
      val |-> [s |-> 1, m |-> <<21759, 9864, 15416, 243>>, e |-> -53]],
     [arg |-> [s |-> 1, m |-> <<17563, 22261, 26677, 248>>, e |-> -50],
      val |-> [s |-> 1, m |-> <<24751, 23628, 6908, 255>>, e |-> -53]],
     [arg |-> [s |-> 1, m |-> <<4083, 9482, 5799, 128>>, e |-> -49],
      val |-> [s |-> 1, m |-> <<25691, 10335, 27794, 252>>, e |-> -53]],
     [arg |-> [s |-> 1, m |-> <<15768, 24217, 31027, 131>>, e |-> -49],
      val |-> [s |-> 1, m |-> <<3398, 7781, 16815, 236>>, e |-> -53]],
     [arg |-> [s |-> 1, m |-> <<27453, 6184, 23488, 135>>, e |-> -49],
      val |-> [s |-> 1, m |-> <<29866, 14127, 3550, 207>>, e |-> -53]],
     [arg |-> [s |-> 1, m |-> <<6370, 20920, 15948, 139>>, e |-> -49],
      val |-> [s |-> 1, m |-> <<28403, 3073, 8477, 166>>, e |-> -53]],
     [arg |-> [s |-> 1, m |-> <<18056, 2887, 8409, 143>>, e |-> -49],
      val |-> [s |-> 1, m |-> <<24056, 22153, 14520, 232>>, e |-> -54]],
     [arg |-> [s |-> 1, m |-> <<29741, 17622, 869, 147>>, e |-> -49],
      val |-> [s |-> 1, m |-> <<31689, 19241, 1574, 239>>, e |-> -55]],
     [arg |-> [s |-> 1, m |-> <<8658, 32358, 26097, 150>>, e |-> -49],
      val |-> [s |-> 1, m |-> <<2570, 6461, 25829, 211>>, e |-> -104]]}

\* v moved by n units in its last place, n in {-1, 0, 1}
F64Ulps(v, n) ==
    IF v.s = 0 \/ n = 0 THEN v
    ELSE IF n > 0 THEN F64Round(v.s, BAdd(v.m, <<1>>), v.e)
    ELSE IF BitLen(BSub(v.m, <<1>>)) = Precision
         THEN [v EXCEPT !.m = BSub(v.m, <<1>>)]
         ELSE [v EXCEPT !.m = BSub(BShl(v.m, 1), <<1>>), !.e = v.e - 1]

\* Math.sin is accurate to a unit in the last place and no further, and
\* engines differ in the last bit: the build 0 returns the correctly rounded
\* sines, and the builds 1 and -1 return, alternately along the grid, the
\* doubles next above and next below them
SinBuilds == {-1, 0, 1}

Math_sin(a, i, b) ==
    F64Ulps((CHOOSE p \in SinTable : p.arg = a).val,
            IF i % 2 = 0 THEN b ELSE -b)

\* the literals of config: L: 1.0, alpha: 0.01
L_f64     == F64Int(1)
alpha_f64 == F64Div(F64Int(1), F64Int(100))
Two_f64   == F64Int(2)

\* config as the page declares it: Nx: 41, dt: 0.001, Tmax: 2.0,
\* method: 'forward-euler', animationSpeed: 5
config0_f64 ==
    [method         |-> "forward-euler",
     Nx             |-> 41,
     dt             |-> F64Div(F64Int(1), F64Int(1000)),
     Tmax           |-> F64Int(2),
     animationSpeed |-> 5]

\* what the dt field and the Tmax and speed sliders are set to: 0.1; 2.0 and
\* 2.5; 1 and 5
DtInputs_f64    == {F64Div(F64Int(1), F64Int(10))}
TmaxInputs_f64  == {F64Int(2), F64Div(F64Int(5), F64Int(2))}
SpeedInputs_f64 == {1, 5}

\* the controls are set before a run, not during it
BeforeRun_f64 == running = idle /\ ~state1d.isPlaying /\ state1d.nSteps = 0

\* a cap on the steps of one run
MaxSteps_f64 == 25

\* Array.from({ length: Nx }, (_, i) => i * dx)
Grid_f64(Nx, dx) == [i \in 0..(Nx - 1) |-> F64Mul(F64Int(i), dx)]

\* x.map(xi => Math.sin(k * Math.PI * xi / L))
getSineIC_f64(x, b) ==
    [i \in DOMAIN x |->
        Math_sin(F64Div(F64Mul(F64Mul(F64Int(k), Math_PI), x[i]), L_f64), i, b)]

\* initSimulation on the grid x of spacing dx; uExact, which needs Math.exp
\* and feeds the chart and the error display only, is left out
initOnGrid_f64(cfg, st, dx, x, b) ==
    [st EXCEPT !.dx = dx,
               !.x = x,
               !.r = F64Div(F64Mul(alpha_f64, cfg.dt), F64Mul(dx, dx)),
               !.t = F64Zero,
               !.nSteps = 0,
               !.flops = 0,
               !.hasDiverged = FALSE,
               !.u = getSineIC_f64(x, b)]

initOnSpacing_f64(cfg, st, dx, b) ==
    initOnGrid_f64(cfg, st, dx, Grid_f64(cfg.Nx, dx), b)

initSimulation_f64(cfg, st, b) ==
    initOnSpacing_f64(cfg, st, F64Div(L_f64, F64Int(cfg.Nx - 1)), b)

\* u[i] + r * (u[i + 1] - 2 * u[i] + u[i - 1])
Stencil_f64(u, r, i) ==
    F64Add(u[i],
           F64Mul(r, F64Add(F64Sub(u[i + 1], F64Mul(Two_f64, u[i])), u[i - 1])))

forwardEuler_f64(u, r) ==
    [i \in DOMAIN u |->
        IF i = 0 \/ i = ALen(u) - 1 THEN F64Zero ELSE Stencil_f64(u, r, i)]

\* stepNumerical, case 'forward-euler': no method button is pressed here
stepNumerical_f64(cfg, st) ==
    [st EXCEPT !.u = forwardEuler_f64(st.u, st.r),
               !.flops = @ + 5 * (cfg.Nx - 2)]

\* timeStep: stepNumerical(); t += dt; nSteps++
timeStep_f64(cfg, st) ==
    [stepNumerical_f64(cfg, st) EXCEPT !.t = F64Add(st.t, cfg.dt),
                                       !.nSteps = @ + 1]

\* Math.max(...u.map(Math.abs))
MaxAbs_f64(u) ==
    CHOOSE m \in {F64Abs(u[i]) : i \in DOMAIN u} :
        \A i \in DOMAIN u : ~F64Lt(m, F64Abs(u[i]))

\* maxVal > 10; every value of these runs is finite
Exceeds_f64(u) == F64Lt(F64Int(DivergedThreshold), MaxAbs_f64(u))

checkDiverged_f64(st) ==
    IF Exceeds_f64(st.u) /\ ~st.hasDiverged
    THEN [st EXCEPT !.hasDiverged = TRUE]
    ELSE st

reset_f64(cfg, st, b) == initSimulation_f64(cfg, stopAnimation(st), b)

\* val < 0.0001 and val > 1.0 of the dt field's handler
clampDt_f64(val) ==
    IF F64Lt(val, F64Div(F64Int(1), F64Int(10000)))
    THEN F64Div(F64Int(1), F64Int(10000))
    ELSE IF F64Lt(F64Int(1), val) THEN F64Int(1) ELSE val

\* state.t >= config.Tmax
Completed_f64(cfg, st) == ~F64Lt(st.t, cfg.Tmax)

\* the runs the model follows reach Tmax within the cap on steps
RunEnds_f64(cfg) ==
    ~F64Lt(F64Mul(F64Int(MaxSteps_f64), cfg.dt), cfg.Tmax)

CanTick_f64(cfg, st) ==
    /\ RunEnds_f64(cfg)
    /\ Completed_f64(cfg, st) \/ st.nSteps + cfg.animationSpeed <= MaxSteps_f64

\* DOMContentLoaded of the standalone 1D page
InitF64 ==
    /\ impl = "app1d"
    /\ currentDimension = Dimension0(impl)
    /\ config = config0_f64
    /\ \E b \in SinBuilds : state1d = initSimulation_f64(config0_f64, blank1d, b)
    /\ state2d = blank2d
    /\ frames = {}
    /\ running = idle
    /\ call = noCall

\* the dt field, 'change', before a run: the value is clamped and stored,
\* then reset()
DtChange_f64 ==
    /\ BeforeRun_f64
    /\ UNCHANGED <<call, impl, currentDimension, state2d, running>>
    /\ frames' = CancelFrame(state1d, frames)
    /\ \E val \in DtInputs_f64 :
          /\ config' = [config EXCEPT !.dt = clampDt_f64(val)]
          /\ state1d' = reset_f64(config', state1d,
                                  CHOOSE b \in SinBuilds :
                                     state1d.u = getSineIC_f64(state1d.x, b))

\* the Tmax slider, 'input'
TmaxInput_f64 ==
    /\ BeforeRun_f64
    /\ \E val \in TmaxInputs_f64 : config' = [config EXCEPT !.Tmax = val]
    /\ UNCHANGED <<call, impl, currentDimension, state1d, state2d, frames, running>>

\* the speed slider, 'input'
SpeedInput_f64 ==
    /\ BeforeRun_f64
    /\ \E s \in SpeedInputs_f64 : config' = [config EXCEPT !.animationSpeed = s]
    /\ UNCHANGED <<call, impl, currentDimension, state1d, state2d, frames, running>>

\* togglePlayPause
PlayPauseClick_f64 ==
    /\ running = idle
    /\ UNCHANGED <<call, impl, currentDimension, config, state2d>>
    /\ IF state1d.isPlaying
       THEN /\ state1d' = stopAnimation(state1d)
            /\ frames' = CancelFrame(state1d, frames)
            /\ running' = running
       ELSE /\ CanTick_f64(config, state1d)
            /\ Cardinality(frames) < MaxFrames
            /\ state1d' = [state1d EXCEPT !.isPlaying = TRUE]
            /\ frames' = frames
            /\ running' = [fn |-> "1d", i |-> 0]

\* the browser runs the pending callback
AnimationFrame_f64 ==
    /\ running = idle
    /\ \E f \in frames :
          /\ frames' = frames \ {f}
          /\ IF state1d.isPlaying
             THEN /\ CanTick_f64(config, state1d)
                  /\ running' = [fn |-> f.fn, i |-> 0]
             ELSE running' = running
    /\ UNCHANGED <<call, impl, currentDimension, config, state1d, state2d>>

\* one pass of the for loop of animate with t < Tmax
LoopIter_f64 ==
    /\ running # idle
    /\ running.i < config.animationSpeed
    /\ ~Completed_f64(config, state1d)
    /\ UNCHANGED <<call, impl, currentDimension, config, state2d, frames>>
    /\ running' = [running EXCEPT !.i = @ + 1]
    /\ state1d' = checkDiverged_f64(timeStep_f64(config, state1d))

\* a pass with t >= Tmax: stopAnimation, return
LoopTmax_f64 ==
    /\ running # idle
    /\ running.i < config.animationSpeed
    /\ Completed_f64(config, state1d)
    /\ state1d' = stopAnimation(state1d)
    /\ frames' = CancelFrame(state1d, frames)
    /\ running' = idle
    /\ UNCHANGED <<call, impl, currentDimension, config, state2d>>

\* after animationSpeed passes the next frame is requested
LoopExit_f64 ==
    /\ running # idle
    /\ running.i >= config.animationSpeed
    /\ state1d' = Schedule(state1d)
    /\ frames' = frames \cup {[id |-> NewFrameId(running.fn), fn |-> running.fn]}
    /\ running' = idle
    /\ UNCHANGED <<call, impl, currentDimension, config, state2d>>

NextF64 ==
    \/ DtChange_f64
    \/ TmaxInput_f64
    \/ SpeedInput_f64
    \/ PlayPauseClick_f64
    \/ AnimationFrame_f64
    \/ LoopIter_f64
    \/ LoopTmax_f64
    \/ LoopExit_f64

SpecF64 == InitF64 /\ [][NextF64]_vars

\* the dt field holds 0.1
DtIsTenth == config.dt = F64Div(F64Int(1), F64Int(10))

\* C20: with the explicit 1D method, L = 1, alpha = 0.01, Nx = 41 and
\* dt = 0.1 (r = 1.6), a run from reset has some |u[i]| above 10 and the
\* diverged flag set before the driver stops at Tmax: once t >= Tmax the
\* flag is set.
C20_UnstableExplicitRegime ==
    (DtIsTenth /\ Completed_f64(config, state1d)) => state1d.hasDiverged

\* ------------------------------------------------------------------------
\* Properties of the steppers of the three pages called on the same input
\* ------------------------------------------------------------------------

CrankNicolson2D == {"crankNicolsonADI", "crankNicolson2D_ADI"}
BackwardEuler2D == {"backwardEulerADI", "backwardEuler2D_ADI"}

\* C21: every 2D Crank-Nicolson step is the Peaceman-Rachford step: the
\* field it returns is the one obtained from the x-implicit half-step on
\* u + (ry/2) d2y u followed by the y-implicit half-step on
\* u* + (rx/2) d2x u*, so the standalone and the unified stepper return the
\* same field for the same u, rx, ry.
C21_PeacemanRachford ==
    [][\A fn \in CrankNicolson2D :
          (Returns(fn) /\ Geq(call.args[2], Zero) /\ Geq(call.args[3], Zero)) =>
             call'.ret = crankNicolsonADI(call.args[1], call.args[2],
                                          call.args[3])]_vars

\* -r x[i-1][j] + (1 + 2r) x[i][j] - r x[i+1][j]
ImplicitX(x, r, i, j) ==
    Sub(Add(Mul(Neg(r), x[i - 1][j]),
            Mul(Add(One, Mul(Int2Num(2), r)), x[i][j])),
        Mul(r, x[i + 1][j]))

\* -r x[i][j-1] + (1 + 2r) x[i][j] - r x[i][j+1]
ImplicitY(x, r, i, j) ==
    Sub(Add(Mul(Neg(r), x[i][j - 1]),
            Mul(Add(One, Mul(Int2Num(2), r)), x[i][j])),
        Mul(r, x[i][j + 1]))

IsBorder(u, i, j) ==
    i = 0 \/ i = ALen(u) - 1 \/ j = 0 \/ j = ALen(u[0]) - 1

\* v is the result of the two sweeps on u: v is 0 on the border, the
\* sweep-1 field is 0 on the border and is what the y-system gives back
\* from v inside, and the x-system gives u back from the sweep-1 field
TwoSweeps(u, rx, ry, v) ==
    LET uStar == [i \in DOMAIN u |-> [j \in DOMAIN u[i] |->
                    IF IsBorder(u, i, j) THEN Zero
                    ELSE ImplicitY(v, ry, i, j)]]
    IN  /\ DOMAIN v = DOMAIN u
        /\ \A i \in DOMAIN u : DOMAIN v[i] = DOMAIN u[i]
        /\ \A i \in DOMAIN u : \A j \in DOMAIN u[i] :
              IF IsBorder(u, i, j) THEN v[i][j] = Zero
              ELSE ImplicitX(uStar, rx, i, j) = u[i][j]

BackwardEuler1D == {"backwardEuler", "backwardEuler1D"}
CrankNicolson1D == {"crankNicolson", "crankNicolson1D"}

Interior(u) == 1..(ALen(u) - 2)

ZeroEnds(x) == x[0] = Zero /\ x[ALen(x) - 1] = Zero

\* -r x[i-1] + (1 + 2r) x[i] - r x[i+1] = u[i]
BackwardEulerRow(u, r, x, i) ==
    Sub(Add(Mul(Neg(r), x[i - 1]), Mul(Add(One, Mul(Int2Num(2), r)), x[i])),
        Mul(r, x[i + 1])) = u[i]

\* -(r/2) x[i-1] + (1 + r) x[i] - (r/2) x[i+1]
\*    = (1 - r) u[i] + (r/2) (u[i+1] + u[i-1])
CrankNicolsonRow(u, r, x, i) ==
    LET r2 == Div(r, Int2Num(2))
    IN  Sub(Add(Mul(Neg(r2), x[i - 1]), Mul(Add(One, r), x[i])),
            Mul(r2, x[i + 1]))
          = Add(Mul(Sub(One, r), u[i]), Mul(r2, Add(u[i + 1], u[i - 1])))

\* C23: for r >= 0 the field returned by a 1D backward Euler step and by a
\* 1D Crank-Nicolson step satisfies the scheme's equation at every
\* interior point and is 0 at both ends, on the standalone and on the
\* unified page, and the input field is left as it was.
C23_ImplicitStepsSolveScheme ==
    [][\A fn \in BackwardEuler1D \cup CrankNicolson1D :
          (Returns(fn) /\ Geq(call.args[2], Zero)) =>
             /\ DOMAIN call'.ret = DOMAIN call.args[1]
             /\ ZeroEnds(call'.ret)
             /\ \A i \in Interior(call.args[1]) :
                   IF fn \in BackwardEuler1D
                   THEN BackwardEulerRow(call.args[1], call.args[2], call'.ret, i)
                   ELSE CrankNicolsonRow(call.args[1], call.args[2], call'.ret, i)
             /\ call'.args = call.args]_vars

\* a Crank-Nicolson step on five points with non-zero ends and r = 1/2 has
\* returned a field that is non-zero inside
C23_Witness ==
    /\ call.fn = "crankNicolson"
    /\ call.done
    /\ ALen(call.args[1]) = 5
    /\ call.args[1][0] = One /\ call.args[1][4] = One
    /\ call.args[1][2] = Int2Num(-2)
    /\ call.args[2] = <<1, 2>>
    /\ \A i \in 1..3 : call.ret[i] # Zero

Explicit1D == {"forwardEuler", "forwardEuler1D"}

\* the 1D stencil with the terms of u[i] collected:
\* (1 - 2r) u[i] + r u[i+1] + r u[i-1]
ExplicitRow(u, r, i) ==
    Add(Add(Mul(Sub(One, Mul(Int2Num(2), r)), u[i]), Mul(r, u[i + 1])),
        Mul(r, u[i - 1]))

\* the 2D stencil with the terms of u[i][j] collected
ExplicitPoint(u, rx, ry, i, j) ==
    Add(Add(Mul(Sub(Sub(One, Mul(Int2Num(2), rx)), Mul(Int2Num(2), ry)), u[i][j]),
            Mul(rx, Add(u[i + 1][j], u[i - 1][j]))),
        Mul(ry, Add(u[i][j + 1], u[i][j - 1])))

\* C24: for every r, stable or not, the explicit step returns a new field
\* that is the stencil of the old field at every interior point and 0 at
\* the ends (1D) or on the border (2D); every value is computed from the
\* old field only and the input field is left as it was.
C24_ExplicitStepIsStencil ==
    [][/\ \A fn \in Explicit1D :
             Returns(fn) =>
                /\ DOMAIN call'.ret = DOMAIN call.args[1]
                /\ ZeroEnds(call'.ret)
                /\ \A i \in Interior(call.args[1]) :
                      call'.ret[i] = ExplicitRow(call.args[1], call.args[2], i)
                /\ call'.args = call.args
       /\ Returns("forwardEuler2D") =>
             /\ DOMAIN call'.ret = DOMAIN call.args[1]
             /\ \A i \in DOMAIN call.args[1] :
                   /\ DOMAIN call'.ret[i] = DOMAIN call.args[1][i]
                   /\ \A j \in DOMAIN call.args[1][i] :
                         call'.ret[i][j] =
                            IF IsBorder(call.args[1], i, j) THEN Zero
                            ELSE ExplicitPoint(call.args[1], call.args[2],
                                               call.args[3], i, j)
             /\ call'.args = call.args]_vars

\* an explicit step with r = 1, above the stability limit, has returned:
\* point 2 is computed from the old value of point 1, which the step changed
C24_Witness ==
    /\ call.fn = "forwardEuler"
    /\ call.done
    /\ ~StableR(call.args[2])
    /\ call.args[2] = One
    /\ ALen(call.args[1]) = 5
    /\ call.ret[1] # call.args[1][1]
    /\ call.ret[2] # Zero

\* the largest |v[i][j]| over the grid
GridMaxAbs(v) ==
    CHOOSE m \in {Abs(v[p[1]][p[2]]) : p \in Points(v)} :
        \A p \in Points(v) : ~Lt(m, Abs(v[p[1]][p[2]]))

\* the largest absolute error over the grid
GridMaxErr(u, uExact) ==
    CHOOSE m \in {ErrAt(u, uExact, p) : p \in Points(u)} :
        \A p \in Points(u) : ~Lt(m, ErrAt(u, uExact, p))

\* C25: the max relative error that a 2D page reports is
\* 100 * (largest absolute error over the grid) / (largest |uExact| over
\* the grid), and 0 when that largest |uExact| is <= 1e-9.
C25_MaxRelativeError ==
    [][\A fn \in StatusDisplays :
          Returns(fn) =>
             call'.ret =
                IF GtPow10(GridMaxAbs(call.args[2]), MaxUExactEpsExp)
                THEN toFixed2(Div(Mul(Int2Num(100),
                                      GridMaxErr(call.args[1], call.args[2])),
                                  GridMaxAbs(call.args[2])))
                ELSE 0]_vars

\* the rows (a, b, c) of the n-row system that an implicit stepper builds
\* with the off-diagonal -h: h = r for backward Euler, r/2 for
\* Crank-Nicolson
SystemOf(n, h) ==
    <<BoundaryA(Fill(n, Neg(h))),
      BoundaryB(Fill(n, Add(One, Mul(Int2Num(2), h)))),
      BoundaryC(Fill(n, Neg(h)))>>

HalfIfCN(fn, r) ==
    IF fn \in CrankNicolson1D \cup CrankNicolson2D
    THEN Div(r, Int2Num(2)) ELSE r

\* the systems solved during the call of fn: one in 1D, the x-systems and
\* the y-systems in 2D
SystemsOf(fn, args) ==
    IF fn \in BackwardEuler1D \cup CrankNicolson1D
    THEN {SystemOf(ALen(args[1]), HalfIfCN(fn, args[2]))}
    ELSE {SystemOf(ALen(args[1]), HalfIfCN(fn, args[2])),
          SystemOf(ALen(args[1][0]), HalfIfCN(fn, args[3]))}

NonNegativeR(fn, args) ==
    /\ Geq(args[2], Zero)
    /\ fn \in BackwardEuler2D \cup CrankNicolson2D => Geq(args[3], Zero)

AllImplicit ==
    BackwardEuler1D \cup CrankNicolson1D \cup BackwardEuler2D \cup CrankNicolson2D

\* C27: for r >= 0 (rx, ry >= 0) every system that a backward-Euler or
\* Crank-Nicolson step hands to thomasAlgorithm has b_0 = 1 and every
\* effective pivot b_i - a_i cp_{i-1} >= 1, so no pivot is below the
\* tolerance and the solver does not return its right-hand side for want
\* of a pivot.
C27_FallbackUnreachable ==
    [][\A fn \in AllImplicit :
          (Returns(fn) /\ NonNegativeR(fn, call.args)) =>
             \A s \in SystemsOf(fn, call.args) :
                /\ s[2][0] = One
                /\ \A i \in DOMAIN s[2] : Geq(EffPivot(s[1], s[2], s[3], i), One)
                /\ ~DegeneratePivot(s[1], s[2], s[3])]_vars

\* a 2D Crank-Nicolson step with rx = 1 and ry = 1/2 on a 4-by-3 field has
\* returned; the second pivot of its x-systems is above 1
C27_Witness ==
    /\ call.fn = "crankNicolsonADI"
    /\ call.done
    /\ ALen(call.args[1]) = 4 /\ ALen(call.args[1][0]) = 3
    /\ call.args[2] = One /\ call.args[3] = <<1, 2>>
    /\ LET s == SystemOf(4, <<1, 2>>)
       IN  Gt(EffPivot(s[1], s[2], s[3], 2), One)
    /\ call.ret[1][1] # Zero

\* ------------------------------------------------------------------------
\* Properties of the animation loop and of the counters of the pages
\* ------------------------------------------------------------------------

\* the callbacks of the driver of dimension dim that the browser holds
Pending(dim) == {f \in frames : f.fn = dim}

\* C28: at most one animation-frame callback is pending at any time, and
\* while a driver is not playing none of its callbacks is pending and its
\* animationId is null (0 in the state records).
C28_SingleAnimationLoop ==
    /\ Cardinality(frames) <= 1
    /\ ~state1d.isPlaying => (Pending("1d") = {} /\ state1d.animationId = 0)
    /\ ~state2d.isPlaying => (Pending("2d") = {} /\ state2d.animationId = 0)

\* the cost that stepNumerical of page p adds per step in dimension dim
StepCost(p, dim, method, N) ==
    CASE dim = "1d" ->
           (CASE method = "forward-euler"  -> 5 * (N - 2)
              [] method = "backward-euler" -> 8 * N
              [] OTHER                     -> 12 * N)
      [] p = "app2d" ->
           (CASE method = "forward-euler"  -> 10 * N * N
              [] method = "backward-euler" -> 16 * N * N
              [] OTHER                     -> 24 * N * N)
      [] OTHER ->
           (CASE method = "forward-euler"  -> 9 * (N - 2) * (N - 2)
              [] method = "backward-euler" -> 16 * N * N
              [] OTHER                     -> 24 * N * N)

\* C29: every change of method, dt or Nx resets the simulation before the
\* next step, so in every reachable state the cost estimate of the driver
\* on display is its step count times the per-step cost of the current
\* method at the current Nx, and its t is its step count times the
\* current dt (for a dt that is a number).
C29_OneMethodOneGrid ==
    /\ Cur.flops =
          Cur.nSteps * StepCost(impl, currentDimension, config.method, config.Nx)
    /\ isFinite(config.dt) => Cur.t = Mul(Int2Num(Cur.nSteps), config.dt)

\* u[i][j] = -u[Nx-1-i][j] at every point
Antisymmetric(u) ==
    \A i \in DOMAIN u : \A j \in DOMAIN u[i] :
        u[i][j] = Neg(u[ALen(u) - 1 - i][j])

\* the divergence test of animate of the standalone 2D page sets the flag
\* on the field u of side n
ProbeFires(n, u) ==
    checkDiverged_2d([Nx |-> n], [u |-> u, hasDiverged |-> FALSE]).hasDiverged

Playing == state1d.isPlaying \/ state2d.isPlaying \/ frames # {}

ControlEvent ==
    \/ PlayPauseClick
    \/ ResetClick
    \/ MethodClick
    \/ DtChange
    \/ DtSliderInput
    \/ DtSliderChange
    \/ NxSliderInput
    \/ NxSliderChange
    \/ TmaxInput
    \/ SpeedInput
    \/ switchDimension

NextUninterrupted ==
    \/ ~Playing /\ ControlEvent
    \/ AnimationFrame
    \/ LoopIter
    \/ LoopTmax
    \/ LoopExit

\* the callback in progress moves on: LoopIter takes running to its next
\* pass, LoopTmax and LoopExit take it to idle, and no other action changes
\* running while a callback is in progress
CallbackStep ==
    /\ running # idle
    /\ running' \in {idle, [running EXCEPT !.i = @ + 1]}

SpecUninterrupted ==
    /\ Init
    /\ [][NextUninterrupted]_vars
    /\ WF_vars(AnimationFrame)
    /\ WF_running(CallbackStep)

\* the driver of dimension dim plays with dt > 0 and a finite Tmax
PlaysTowardsTmax(dim) ==
    /\ (IF dim = "1d" THEN state1d ELSE state2d).isPlaying
    /\ Gt(config.dt, Zero)
    /\ isFinite(config.dt)
    /\ isFinite(config.Tmax)

\* the driver of dimension dim has reached Tmax and stopped itself
StoppedAtTmax(dim) ==
    LET st == IF dim = "1d" THEN state1d ELSE state2d
    IN  /\ Completed(config, st)
        /\ ~st.isPlaying
        /\ Pending(dim) = {}
        /\ running = idle

\* C26: a driver that plays with dt > 0 and a finite Tmax, with frames
\* delivered and no control used meanwhile, eventually reaches t >= Tmax
\* and stops itself: not playing, no frame pending.
C26_Termination ==
    /\ PlaysTowardsTmax("1d") ~> StoppedAtTmax("1d")
    /\ PlaysTowardsTmax("2d") ~> StoppedAtTmax("2d")

=============================================================================
